---- MODULE Spec2Model ----
(***************************************************************************)
(* Model of the network-share synchronisation engine of                    *)
(* test_framework/utils/packge.py: WindowsFileSync.sync_files and the      *)
(* FileTransferService.copy_files batch it runs (asyncio tasks under a     *)
(* Semaphore, per-file retry loop, TransferSummary).                       *)
(***************************************************************************)
EXTENDS Integers, Sequences, FiniteSets, Bags, TLC

\* ------------------------------------------------------------------ bounds
NumFiles == 2      \* non-directory entries on the share: 1..NumFiles
NumDirs == 1       \* directory entries on the share: 1..NumDirs
MaxCap == 2        \* SyncConfig.max_concurrent_transfers ranges over 1..MaxCap
SizeLimit == 6     \* FileFilter.max_size; file sizes lie around it
NumArchives == 3   \* archives under base_path at the start of a ZipProcessingService run
MaxPathLen == 4    \* characters of the share_path a WindowsShareManager is given

\* SyncConfig.retry_attempts: int = 3; the model takes retry_attempts from 0
\* (the least value validate() accepts) up to this default.
DefaultRetryAttempts == 3

\* SyncConfig.max_concurrent_transfers: int = 5, chunk_size: int = 64 * 1024,
\* and the least chunk_size validate() accepts.
DefaultMaxConcurrentTransfers == 5
DefaultChunkSize == 65536
MinChunkSize == 1024

Files == 1..NumFiles
Dirs == 1..NumDirs

\* FileInfo records of the share: is_directory, an id for path/name, size.
FileEntry(i) == [is_directory |-> FALSE, id |-> i, size |-> i]
DirEntry(j) == [is_directory |-> TRUE, id |-> j, size |-> 0]
Entries == {FileEntry(i) : i \in Files} \cup {DirEntry(j) : j \in Dirs}

VARIABLES
    config,     \* SyncConfig of the WindowsFileSync object (validated)
    call,       \* arguments of the running sync_files call
    run,        \* 1 for the first sync of the share into the local root, 2 for a repeat
    pc,         \* position inside sync_files / copy_files
    attempt,    \* loop variable of _retry_operation for the current step
    phases,     \* history: the phases this call has entered, in order
    share,      \* the entries discovery finds on the share (unchanged source)
    files,      \* file_list: what discover_files returned
    space,      \* available_bytes as check_disk_space saw it
    rootExists, \* local_base_path.exists()
    localDirs,  \* directories present under the local root
    local,      \* content of each local target file
    task,       \* copy_single_file coroutine of each file
    results,    \* results list of copy_files
    monitor,    \* ProgressMonitor counters
    summary,    \* TransferSummary returned by the call
    error,      \* exception type that escaped the call
    dirIdx,     \* number of directory entries the mkdir loop has handled
    snap,       \* history: the local tree when the call began; did the call before return
    zipCall,    \* the sync_and_process_zips call around sync_files, if there is one
    op,         \* one _retry_operation call looked at on its own
    candidate,  \* the SyncConfig the constructor of WindowsFileSync is given
    flt,        \* one FileFilter.should_include call looked at on its own
    walk,       \* one discover_files call looked at on its own
    zips,       \* one ZipProcessingService run looked at on its own
    manager     \* one WindowsShareManager looked at on its own

\* The state of one sync_files call.
syncVars == <<config, call, run, pc, attempt, phases, share, files, space, rootExists,
              localDirs, local, task, results, monitor, summary, error, dirIdx, snap>>

\* The state of the operations around and beside sync_files.
otherVars == <<zipCall, op, candidate, flt, walk, zips, manager>>

vars == <<syncVars, otherVars>>

\* ------------------------------------------------------------ pure helpers
\* Content of a local target, relative to the running call: "absent", "old"
\* (there before the call began), "full" or "partial" (written by this call).
Absent == "absent"

NoSummary == [returned |-> FALSE]
NoSpace == [status |-> "unchecked", available |-> 0]

FileEntries(list) == {e \in list : ~e.is_directory}
DirEntries(list) == {e \in list : e.is_directory}

RECURSIVE SumSize(_)
SumSize(S) ==
    IF S = {} THEN 0
    ELSE LET e == CHOOSE x \in S : TRUE IN e.size + SumSize(S \ {e})

\* sum(... f.size ... for f in files if not f.is_directory)
TotalSize(list) == SumSize(FileEntries(list))

\* results is kept as a bag of TransferResult records: the list up to order.
RECURSIVE BagSum(_, _)
BagSum(B, S) ==
    IF S = {} THEN 0
    ELSE LET r == CHOOSE x \in S : TRUE
         IN CopiesIn(r, B) * r.bytes_transferred + BagSum(B, S \ {r})

\* sum(r.bytes_transferred for r in results)
SumBytes(rs) == BagSum(rs, BagToSet(rs))

\* sum(1 for r in results if r.success) / if not r.success
CountSuccess(rs, flag) ==
    BagCardinality([r \in {x \in BagToSet(rs) : x.success = flag} |-> rs[r]])

\* [r.error_message for r in results if r.error_message], up to order
ErrorsOf(rs) ==
    LET msgs == {r.error_message : r \in {x \in BagToSet(rs) : x.error_message # ""}}
    IN [m \in msgs |->
          BagCardinality([r \in {x \in BagToSet(rs) : x.error_message = m} |-> rs[r]])]

\* A file task: its position, the attempts it has made and the TransferResult
\* it has built (its local result / error_result), "none" while it has none.
InitialTask == [f \in Files |-> [pc |-> "none", attempt |-> 0, result |-> "none"]]
InitialMonitor ==
    [total_files |-> 0, completed_files |-> 0, failed_files |-> 0,
     skipped_files |-> 0, total_bytes |-> 0, transferred_bytes |-> 0,
     errors |-> EmptyBag]

\* The local root when the first call begins: it does not exist yet, or it
\* exists and holds an older copy of the tree (every file, every directory).
OldTree(exists) == [f \in Files |-> IF exists THEN "old" ELSE Absent]
OldDirs(exists) == IF exists THEN Dirs ELSE {}

\* No sync_and_process_zips call: sync_files is called directly.
NoZipCall ==
    [state |-> "none", process_zips |-> FALSE, invoked |-> FALSE, failed |-> FALSE,
     transfer_summary |-> NoSummary, zip_summary |-> "None"]

\* No _retry_operation call is looked at on its own.
NoOperation ==
    [state |-> "none", operation |-> "none", outcomes |-> <<>>, attempt |-> 0,
     calls |-> 0, sleeps |-> 0, last_exception |-> [type |-> "None", at |-> 0],
     result |-> 0, raised |-> [type |-> "None", at |-> 0]]

\* ------------------------------------------------------------------- Init
\* A WindowsFileSync with a validated SyncConfig, at the entry of sync_files.
\* The arguments of the call, the share and the local root it meets, and the
\* call's own state before its first step.
SyncWorld ==
    /\ call \in [overwrite : BOOLEAN, clear_destination : BOOLEAN]
    /\ run = 1
    /\ attempt = 0
    /\ share \in SUBSET Entries
    /\ files = {}
    /\ space = NoSpace
    /\ rootExists \in BOOLEAN
    /\ localDirs = OldDirs(rootExists)
    /\ local = OldTree(rootExists)
    /\ task = InitialTask
    /\ results = EmptyBag
    /\ monitor = InitialMonitor
    /\ summary = NoSummary
    /\ error = "none"
    /\ dirIdx = 0
    /\ snap = [root |-> rootExists, local |-> OldTree(rootExists), returned |-> FALSE]

SyncInit ==
    /\ config \in [retry_attempts : 0..DefaultRetryAttempts,
                   max_concurrent_transfers : 1..MaxCap]
    /\ pc = "validate_local"
    /\ phases = <<"validate_local">>
    /\ SyncWorld

\* The SyncConfig of which config keeps the two fields the engine reads.
AsSyncConfig(c) ==
    [max_concurrent_transfers |-> c.max_concurrent_transfers,
     retry_attempts |-> c.retry_attempts,
     chunk_size |-> DefaultChunkSize, log_level |-> "INFO"]

\* A WindowsFileSync whose sync_files is not looked at: one fixed state.
SyncNotRun ==
    /\ SyncInit
    /\ config.max_concurrent_transfers = 1
    /\ call = [overwrite |-> FALSE, clear_destination |-> FALSE]
    /\ share = {}
    /\ ~rootExists

\* ------------------------------------------------- sync_files, before copy
Enter(p) == pc' = p /\ phases' = Append(phases, p)

\* Mutant of HandleSyncErrors: every exception is re-raised as it is.
HandleSyncErrorsReraised(e) == e

\* handle_sync_errors: KeyboardInterrupt and the four engine errors pass
\* unchanged, any other Exception is wrapped into the root type.
HandleSyncErrors(e) ==
    IF e \in {"KeyboardInterrupt", "ShareAccessError", "AuthenticationError",
              "FileAccessError", "TransferError"}
    THEN e ELSE "WindowsFileSyncError"

\* Mutant of Raise: the error is logged and the call goes on to the transfer.
RaiseSwallowed(e) ==
    pc' = "transfer" /\ phases' = Append(phases, "transfer") /\ error' = error

Raise(e) == pc' = "raised" /\ error' = HandleSyncErrors(e) /\ phases' = phases

\* _retry_operation: attempts 0..retry_attempts; a failure before the last
\* attempt sleeps and loops, the last failure is raised.
RetryOperation(succeed, errors) ==
    \/ succeed /\ attempt' = 0
    \/ /\ attempt < config.retry_attempts
       /\ attempt' = attempt + 1
       /\ UNCHANGED <<pc, phases, error, files, summary>>
    \/ /\ attempt >= config.retry_attempts
       /\ \E e \in errors : Raise(e)
       /\ UNCHANGED <<attempt, files, summary>>

copyState == <<rootExists, localDirs, local, task, results, dirIdx>>

ValidateLocalPath ==
    /\ pc = "validate_local"
    /\ \/ Enter("validate_remote") /\ error' = error
       \/ Raise("TransferError")
    /\ UNCHANGED <<config, call, run, attempt, share, files, space, monitor, summary, snap>>
    /\ UNCHANGED copyState
    /\ UNCHANGED otherVars

ValidatePath ==
    /\ pc = "validate_remote"
    /\ RetryOperation(Enter("probe") /\ UNCHANGED <<error, files, summary>>,
                      {"ShareAccessError"})
    /\ UNCHANGED <<config, call, run, share, space, monitor, snap>>
    /\ UNCHANGED copyState
    /\ UNCHANGED otherVars

TestAccess ==
    /\ pc = "probe"
    /\ RetryOperation(Enter("discover") /\ UNCHANGED <<error, files, summary>>,
                      {"AuthenticationError", "ShareAccessError"})
    /\ UNCHANGED <<config, call, run, share, space, monitor, snap>>
    /\ UNCHANGED copyState
    /\ UNCHANGED otherVars

\* The user interrupts the running call: the KeyboardInterrupt passes through
\* handle_sync_errors and leaves sync_files.
Interrupt ==
    /\ pc \notin {"done", "raised"}
    /\ Raise("KeyboardInterrupt")
    /\ UNCHANGED <<config, call, run, attempt, share, files, space, monitor, summary, snap>>
    /\ UNCHANGED copyState
    /\ UNCHANGED otherVars

\* Mutant of ZeroSummary: the entries of the share are counted although none
\* was selected.
ZeroSummaryCountsShare ==
    [returned |-> TRUE, total_files |-> 1, successful_files |-> 0,
     failed_files |-> 1, skipped_files |-> 0, total_bytes |-> 0,
     transferred_bytes |-> 0, errors |-> EmptyBag]

\* discover_files under _retry_operation; an empty catalogue returns the
\* zero TransferSummary at once.
ZeroSummary ==
    [returned |-> TRUE, total_files |-> 0, successful_files |-> 0,
     failed_files |-> 0, skipped_files |-> 0, total_bytes |-> 0,
     transferred_bytes |-> 0, errors |-> EmptyBag]

DiscoverFiles ==
    /\ pc = "discover"
    /\ RetryOperation(/\ files' = share
                      /\ error' = error
                      /\ IF share = {}
                         THEN pc' = "done" /\ phases' = phases /\ summary' = ZeroSummary
                         ELSE Enter("space") /\ summary' = summary,
                      {"FileAccessError"})
    /\ UNCHANGED <<config, call, run, share, space, monitor, snap>>
    /\ UNCHANGED copyState
    /\ UNCHANGED otherVars

\* check_disk_space, called only when total_size > 0; disk_usage may fail.
FreeSpaceChoices(required) == {required - 1, required, required + 1} \cap Nat

\* Mutant of CheckDiskSpaceFails: the comparison also rejects equal space.
CheckDiskSpaceFailsOnEqual(available, required) == available <= required

CheckDiskSpaceFails(available, required) == available < required

CheckDiskSpace ==
    /\ pc = "space"
    /\ LET required == TotalSize(files) IN
       IF required > 0
       THEN \/ \E available \in FreeSpaceChoices(required) :
                 /\ space' = [status |-> "measured", available |-> available]
                 /\ IF CheckDiskSpaceFails(available, required)
                    THEN Raise("TransferError")
                    ELSE Enter("progress") /\ error' = error
            \/ space' = [status |-> "inquiry_failed", available |-> 0] /\ Enter("progress") /\ error' = error
       ELSE space' = [status |-> "skipped", available |-> 0] /\ Enter("progress") /\ error' = error
    /\ UNCHANGED <<config, call, run, attempt, share, files, monitor, summary, snap>>
    /\ UNCHANGED copyState
    /\ UNCHANGED otherVars

\* progress_monitor.start_transfer(file_count, total_size)
StartTransfer ==
    /\ pc = "progress"
    /\ monitor' = [InitialMonitor EXCEPT
                     !.total_files = Cardinality(FileEntries(files)),
                     !.total_bytes = TotalSize(files)]
    /\ Enter("transfer")
    /\ space' = NoSpace
    /\ UNCHANGED <<config, call, run, attempt, share, files, summary, error, snap>>
    /\ UNCHANGED copyState
    /\ UNCHANGED otherVars

\* ------------------------------------------------------------- copy_files
transferFrame == <<config, call, run, attempt, phases, share, files, space, snap>>

\* Mutant of ClearedLocal: the tree is not removed.
ClearedLocalKeepsTree == local

\* shutil.rmtree(local_base_path) followed by mkdir: nothing is left.
ClearedLocal == [f \in Files |-> Absent]

\* if clear_destination and local_base_path.exists(): rmtree + mkdir, any
\* failure becomes TransferError (rmtree may have removed part of the tree).
ClearDestination ==
    /\ pc = "transfer"
    /\ IF call.clear_destination /\ rootExists
       THEN \/ /\ local' = ClearedLocal
               /\ localDirs' = {}
               /\ rootExists' = TRUE
               /\ pc' = "mkroot"
               /\ error' = error
            \/ /\ \E keepF \in SUBSET {f \in Files : local[f] # Absent},
                     keepD \in SUBSET localDirs, root \in BOOLEAN :
                    /\ ~root => keepF = {} /\ keepD = {}
                    /\ local' = [f \in Files |-> IF f \in keepF THEN local[f] ELSE Absent]
                    /\ localDirs' = keepD
                    /\ rootExists' = root
               /\ pc' = "raised"
               /\ error' = HandleSyncErrors("TransferError")
       ELSE /\ pc' = "mkroot"
            /\ UNCHANGED <<local, localDirs, rootExists, error>>
    /\ UNCHANGED <<task, results, dirIdx, monitor, summary>>
    /\ UNCHANGED transferFrame
    /\ UNCHANGED otherVars

\* local_base_path.mkdir(parents=True, exist_ok=True); then results = [],
\* the Semaphore and one copy_single_file coroutine per non-directory entry.
MakeBaseDir ==
    /\ pc = "mkroot"
    /\ \/ /\ rootExists' = TRUE
          /\ pc' = "mkdirs"
          /\ task' = [f \in Files |->
                        IF FileEntry(f) \in files
                        THEN [pc |-> "created", attempt |-> 0, result |-> "none"]
                        ELSE InitialTask[f]]
          /\ results' = EmptyBag
          /\ dirIdx' = 0
          /\ error' = error
       \/ /\ ~rootExists
          /\ pc' = "raised"
          /\ error' = HandleSyncErrors("OSError")
          /\ UNCHANGED <<rootExists, task, results, dirIdx>>
    /\ UNCHANGED <<local, localDirs, monitor, summary>>
    /\ UNCHANGED transferFrame
    /\ UNCHANGED otherVars

\* The directory entries of file_list in list order.
RECURSIVE DirSeq(_)
DirSeq(S) ==
    IF S = {} THEN <<>>
    ELSE LET d == CHOOSE x \in S : \A y \in S : x <= y
         IN <<d>> \o DirSeq(S \ {d})

DirList == DirSeq({e.id : e \in DirEntries(files)})

\* for file_info in file_list: if file_info.is_directory: mkdir(...)
CreateDirectory ==
    /\ pc = "mkdirs"
    /\ dirIdx < Len(DirList)
    /\ LET d == DirList[dirIdx + 1] IN
       \/ /\ localDirs' = localDirs \cup {d}
          /\ dirIdx' = dirIdx + 1
          /\ UNCHANGED <<pc, error>>
       \/ /\ d \notin localDirs
          /\ pc' = "raised"
          /\ error' = HandleSyncErrors("OSError")
          /\ UNCHANGED <<localDirs, dirIdx>>
    /\ UNCHANGED <<rootExists, local, task, results, monitor, summary>>
    /\ UNCHANGED transferFrame
    /\ UNCHANGED otherVars

\* Mutant of DirectoriesCreated: the tasks are gathered before the loop ends.
DirectoriesCreatedEarly == dirIdx <= Len(DirList)

\* The mkdir loop has run to its end.
DirectoriesCreated == dirIdx = Len(DirList)

\* if tasks: await asyncio.gather(*tasks, return_exceptions=True)
Gather ==
    /\ pc = "mkdirs"
    /\ DirectoriesCreated
    /\ pc' = "gather"
    /\ UNCHANGED <<rootExists, localDirs, local, task, results, dirIdx, monitor,
                   summary, error>>
    /\ UNCHANGED transferFrame
    /\ UNCHANGED otherVars

\* ------------------------------------------------------- copy_single_file
\* Tasks that hold a slot of the Semaphore: inside "async with semaphore",
\* suspended in asyncio.sleep between two attempts.
\* Mutant of InFlight: a finished task keeps its slot.
InFlightNeverReleased == {f \in Files : task[f].pc \in {"sleeping", "done"}}

InFlight == {f \in Files : task[f].pc = "sleeping"}

\* Mutant of SemaphoreFree: the limiter admits one task too many.
SemaphoreFreeOffByOne == Cardinality(InFlight) <= config.max_concurrent_transfers

\* asyncio.Semaphore(max_concurrent_transfers): acquire succeeds while the
\* counter is positive.
SemaphoreFree == Cardinality(InFlight) < config.max_concurrent_transfers

\* copy_file: what one call can return or raise, with what it leaves at the
\* local target.
\*  - target exists and not overwrite: failed result "already exists";
\*  - _copy_file_with_progress succeeds: the full content, success;
\*  - an exception anywhere in the try block: the handler stats the remote
\*    file again and returns a failed result, or raises FileAccessError when
\*    that stat fails too; open(destination, 'wb') may by then have truncated
\*    the target and written part of it.
CopyFileOutcomes(f) ==
    LET failures(locs) ==
            {[ret |-> r, loc |-> l] : r \in {"copy_failed", "raise"}, l \in locs}
    IN  IF local[f] # Absent /\ ~call.overwrite
        THEN {[ret |-> "already_exists", loc |-> local[f]]} \cup failures({local[f]})
        ELSE {[ret |-> "success", loc |-> "full"]}
             \cup failures({local[f], "partial"})

\* TransferResult built by copy_file (success, already exists, copy failed)
\* or by copy_single_file after the last failed attempt (retry_failed).
TransferResult(f, ret) ==
    [file |-> f,
     success |-> (ret = "success"),
     error_message |-> IF ret = "success" THEN "" ELSE ret,
     bytes_transferred |-> IF ret = "success" THEN FileEntry(f).size ELSE 0]

\* Mutant of FileCompleted: the counter is written from a value read before
\* another task's update.
FileCompletedStale(m, success, error_message) ==
    IF success
    THEN [m EXCEPT !.completed_files = 1]
    ELSE [m EXCEPT !.failed_files = 1,
                   !.errors = IF error_message # ""
                              THEN @ (+) SetToBag({error_message}) ELSE @]

\* ProgressMonitor.file_completed
FileCompleted(m, success, error_message) ==
    IF success
    THEN [m EXCEPT !.completed_files = @ + 1]
    ELSE [m EXCEPT !.failed_files = @ + 1,
                   !.errors = IF error_message # ""
                              THEN @ (+) SetToBag({error_message}) ELSE @]

\* ProgressMonitor.get_summary: the counters as a TransferSummary.
GetSummary(m) ==
    [returned |-> TRUE,
     total_files |-> m.total_files,
     successful_files |-> m.completed_files,
     failed_files |-> m.failed_files,
     skipped_files |-> m.skipped_files,
     total_bytes |-> m.total_bytes,
     transferred_bytes |-> m.transferred_bytes,
     errors |-> m.errors]

\* _progress_callback(result), called by copy_single_file after the append.
ProgressCallback(m, result) == FileCompleted(m, result.success, result.error_message)

\* for attempt in range(retry_attempts): is there an iteration to run
LoopRuns(a) == a < config.retry_attempts

\* except Exception: if attempt < retry_attempts - 1 (sleep, next attempt)
RetryLeft(a) == a < config.retry_attempts - 1

\* One pass through the body of the retry loop for attempt index a:
\* copy_file, then append + callback + break, or the except branch.
LoopBody(f, a) ==
    \E o \in CopyFileOutcomes(f) :
        /\ local' = [local EXCEPT ![f] = o.loc]
        /\ IF o.ret # "raise"
           THEN /\ results' = results (+) SetToBag({TransferResult(f, o.ret)})
                /\ monitor' = ProgressCallback(monitor, TransferResult(f, o.ret))
                /\ task' = [task EXCEPT ![f] = [pc |-> "done", attempt |-> a + 1, result |-> o.ret]]
           ELSE IF RetryLeft(a)
                THEN /\ task' = [task EXCEPT ![f] = [pc |-> "sleeping", attempt |-> a + 1, result |-> "none"]]
                     /\ UNCHANGED <<results, monitor>>
                ELSE /\ results' = results (+) SetToBag({TransferResult(f, "retry_failed")})
                     /\ task' = [task EXCEPT ![f] = [pc |-> "done", attempt |-> a + 1,
                                                      result |-> "retry_failed"]]
                     /\ UNCHANGED monitor

\* The task starts: async with semaphore admits it and it runs, without a
\* suspension point, into its first attempt; with range(retry_attempts)
\* empty the loop body never runs and the slot is released at once.
StartTask(f) ==
    /\ pc = "gather"
    /\ task[f].pc = "created"
    /\ SemaphoreFree
    /\ IF LoopRuns(0)
       THEN LoopBody(f, 0)
       ELSE /\ task' = [task EXCEPT ![f].pc = "done"]
            /\ UNCHANGED <<local, results, monitor>>
    /\ UNCHANGED <<pc, rootExists, localDirs, dirIdx, summary, error>>
    /\ UNCHANGED transferFrame
    /\ UNCHANGED otherVars

\* await asyncio.sleep(retry_delay) returns: the next iteration of the loop.
WakeUp(f) ==
    /\ pc = "gather"
    /\ task[f].pc = "sleeping"
    /\ LoopBody(f, task[f].attempt)
    /\ UNCHANGED <<pc, rootExists, localDirs, dirIdx, summary, error>>
    /\ UNCHANGED transferFrame
    /\ UNCHANGED otherVars

\* Mutant of MakeSummary: what did not succeed is counted as failed.
MakeSummaryFailedByRest ==
    [returned |-> TRUE,
     total_files |-> Cardinality(files),
     successful_files |-> CountSuccess(results, TRUE),
     failed_files |-> Cardinality(files) - CountSuccess(results, TRUE),
     skipped_files |-> 0,
     total_bytes |-> TotalSize(files),
     transferred_bytes |-> SumBytes(results),
     errors |-> ErrorsOf(results)]

\* The TransferSummary copy_files builds from results and file_list.
MakeSummary ==
    [returned |-> TRUE,
     total_files |-> Cardinality(files),
     successful_files |-> CountSuccess(results, TRUE),
     failed_files |-> CountSuccess(results, FALSE),
     skipped_files |-> 0,
     total_bytes |-> TotalSize(files),
     transferred_bytes |-> SumBytes(results),
     errors |-> ErrorsOf(results)]

\* gather has returned: every task is finished; sync_files returns.
Summarize ==
    /\ pc = "gather"
    /\ \A f \in Files : task[f].pc \in {"none", "done"}
    /\ summary' = MakeSummary
    /\ pc' = "done"
    /\ UNCHANGED <<rootExists, localDirs, local, task, results, dirIdx, monitor, error>>
    /\ UNCHANGED transferFrame
    /\ UNCHANGED otherVars

\* What is at the local targets becomes "old" content for the next call.
Aged(loc) == [f \in Files |-> IF loc[f] = Absent THEN Absent ELSE "old"]

\* The caller syncs the same share into the same local root again, as
\* PackageManager does for each download: a new WindowsFileSync (and with it
\* a new ProgressMonitor) with the same SyncConfig, and the same arguments.
NextCall ==
    /\ pc \in {"done", "raised"}
    /\ run = 1
    /\ run' = 2
    /\ local' = Aged(local)
    /\ snap' = [root |-> rootExists, local |-> Aged(local),
                returned |-> summary.returned]
    /\ monitor' = InitialMonitor
    /\ pc' = "validate_local"
    /\ phases' = <<"validate_local">>
    /\ attempt' = 0
    /\ files' = {}
    /\ space' = NoSpace
    /\ task' = InitialTask
    /\ results' = EmptyBag
    /\ dirIdx' = 0
    /\ summary' = NoSummary
    /\ error' = "none"
    /\ UNCHANGED <<config, call, share, rootExists, localDirs>>
    /\ UNCHANGED otherVars

\* --------------------------------------------------- sync_and_process_zips
\* Mutant of CaughtZipFailure: the failure of the post-processor is raised on.
ZipFailureReraised(z, ts) == [z EXCEPT !.state = "raised", !.failed = TRUE]

\* except Exception as e: logged; (transfer_summary, None) is returned.
CaughtZipFailure(z, ts) ==
    [z EXCEPT !.state = "returned", !.failed = TRUE,
              !.transfer_summary = ts, !.zip_summary = "None"]

\* sync_files has returned transfer_summary. With process_zips the call
\* runs process_mcu_soc_zips: it raises ZipProcessingError when the local
\* root does not exist, and may raise or return a ZipProcessingSummary
\* otherwise. (What the extraction does to the tree is left to the archive
\* service.) The pair (transfer_summary, zip_summary) is returned.
ProcessZips ==
    /\ zipCall.state = "syncing"
    /\ pc = "done"
    /\ IF zipCall.process_zips
       THEN \E raises \in BOOLEAN :
              /\ ~rootExists => raises
              /\ zipCall' =
                   IF raises
                   THEN CaughtZipFailure([zipCall EXCEPT !.invoked = TRUE], summary)
                   ELSE [zipCall EXCEPT !.state = "returned", !.invoked = TRUE,
                                        !.transfer_summary = summary,
                                        !.zip_summary = "ZipProcessingSummary"]
       ELSE zipCall' = [zipCall EXCEPT !.state = "returned",
                                       !.transfer_summary = summary]
    /\ UNCHANGED <<syncVars, op, candidate, flt, walk, zips, manager>>

\* An exception of sync_files leaves sync_and_process_zips as it is.
SyncFilesRaised ==
    /\ zipCall.state = "syncing"
    /\ pc = "raised"
    /\ zipCall' = [zipCall EXCEPT !.state = "raised"]
    /\ UNCHANGED <<syncVars, op, candidate, flt, walk, zips, manager>>

\* -------------------------------------------------------------- FileFilter
\* File names, paths and patterns are sequences of one-character strings.
\* str.lower() on the letters that occur in them.
Lower(c) ==
    CASE c = "A" -> "a" [] c = "I" -> "i" [] c = "P" -> "p" [] c = "S" -> "s"
      [] c = "T" -> "t" [] c = "X" -> "x" [] c = "Z" -> "z" [] OTHER -> c

LowerSeq(t) == [i \in 1..Len(t) |-> Lower(t[i])]

\* The position of the last c in t, 0 when there is none.
LastIndexOf(t, c) ==
    LET at == {i \in 1..Len(t) : t[i] = c}
    IN IF at = {} THEN 0 ELSE CHOOSE i \in at : \A j \in at : j <= i

StartsWith(t, prefix) ==
    Len(prefix) <= Len(t) /\ SubSeq(t, 1, Len(prefix)) = prefix

EndsWith(t, suffix) ==
    Len(suffix) <= Len(t) /\ SubSeq(t, Len(t) - Len(suffix) + 1, Len(t)) = suffix

\* t.lstrip('.')
RECURSIVE LStripDot(_)
LStripDot(t) == IF t # <<>> /\ Head(t) = "." THEN LStripDot(Tail(t)) ELSE t

\* fnmatch.fnmatch for patterns made of literal characters, '*' and '?'.
RECURSIVE FnMatch(_, _)
FnMatch(t, pattern) ==
    IF pattern = <<>> THEN t = <<>>
    ELSE IF Head(pattern) = "*"
         THEN FnMatch(t, Tail(pattern)) \/ (t # <<>> /\ FnMatch(Tail(t), pattern))
         ELSE /\ t # <<>>
              /\ Head(pattern) = "?" \/ Head(pattern) = Head(t)
              /\ FnMatch(Tail(t), Tail(pattern))

\* re.search(regex, t, re.IGNORECASE) for a regex of literal characters.
ReSearch(regex, t) ==
    \E i \in 1..(Len(t) - Len(regex) + 1) :
        LowerSeq(SubSeq(t, i, i + Len(regex) - 1)) = LowerSeq(regex)

RegexPrefix == <<"r", "e", "g", "e", "x", ":">>

\* Mutant of GetFileExtension: the extension keeps its letter case.
GetFileExtensionCased(filename) ==
    IF LastIndexOf(filename, ".") = 0 THEN <<>>
    ELSE SubSeq(filename, LastIndexOf(filename, ".") + 1, Len(filename))

\* _get_file_extension: the text after the last '.', lower case; '' if none.
GetFileExtension(filename) ==
    IF LastIndexOf(filename, ".") = 0 THEN <<>>
    ELSE LowerSeq(SubSeq(filename, LastIndexOf(filename, ".") + 1, Len(filename)))

\* Mutant of WithoutExtension: the suffix is looked for in the whole name.
WithExtension(filename) == filename

\* '.'.join(name.split('.')[:-1]) when the name holds a '.', else the name.
WithoutExtension(filename) ==
    IF LastIndexOf(filename, ".") = 0 THEN filename
    ELSE SubSeq(filename, 1, LastIndexOf(filename, ".") - 1)

\* _matches_exclude_patterns(filename, filepath)
MatchesExcludePatterns(patterns, filename, filepath) ==
    \E k \in 1..Len(patterns) :
        LET pattern == patterns[k] IN
        \/ FnMatch(LowerSeq(filename), LowerSeq(pattern))
        \/ /\ StartsWith(pattern, RegexPrefix)
           /\ ReSearch(SubSeq(pattern, Len(RegexPrefix) + 1, Len(pattern)), filename)
        \/ FnMatch(LowerSeq(filepath), LowerSeq(pattern))

\* A size as Python holds it: an int, a str or None.
IntValue(n) == [kind |-> "int", n |-> n, text |-> <<>>]
StrValue(t) == [kind |-> "str", n |-> 0, text |-> t]
NoneValue == [kind |-> "None", n |-> 0, text |-> <<>>]

Digits == <<"0", "1", "2", "3", "4", "5", "6", "7", "8", "9">>
DigitValue(c) == (CHOOSE i \in 1..Len(Digits) : Digits[i] = c) - 1
IsDigit(c) == \E i \in 1..Len(Digits) : Digits[i] = c

\* t.strip(' ')
RECURSIVE Strip(_)
Strip(t) ==
    IF t # <<>> /\ Head(t) = " " THEN Strip(Tail(t))
    ELSE IF t # <<>> /\ t[Len(t)] = " " THEN Strip(SubSeq(t, 1, Len(t) - 1))
    ELSE t

RECURSIVE DecimalValue(_)
DecimalValue(t) ==
    IF t = <<>> THEN 0
    ELSE 10 * DecimalValue(SubSeq(t, 1, Len(t) - 1)) + DigitValue(t[Len(t)])

\* int(text): blanks around, an optional sign, then decimal digits only;
\* anything else is a ValueError.
ParseInt(text) ==
    LET t == Strip(text)
        signed == t # <<>> /\ Head(t) \in {"+", "-"}
        digits == IF signed THEN Tail(t) ELSE t
    IN  IF digits = <<>> \/ \E i \in 1..Len(digits) : ~IsDigit(digits[i])
        THEN [ok |-> FALSE, n |-> 0]
        ELSE [ok |-> TRUE,
              n |-> IF signed /\ Head(t) = "-" THEN 0 - DecimalValue(digits)
                    ELSE DecimalValue(digits)]

\* FileFilter.__init__: extensions lower case without leading dots, max_size
\* through int() (None when that fails), prefixes and suffixes lower case.
FileFilter(extensions, max_size, exclude_patterns, include_directories, filename_prefixes, filename_suffixes) ==
    [extensions |-> [i \in 1..Len(extensions) |-> LStripDot(LowerSeq(extensions[i]))],
     max_size |-> CASE max_size.kind = "int" -> max_size
                    [] max_size.kind = "str" ->
                         IF ParseInt(max_size.text).ok
                         THEN IntValue(ParseInt(max_size.text).n) ELSE NoneValue
                    [] OTHER -> NoneValue,
     exclude_patterns |-> exclude_patterns,
     include_directories |-> include_directories,
     filename_prefixes |-> [i \in 1..Len(filename_prefixes) |-> LowerSeq(filename_prefixes[i])],
     filename_suffixes |-> [i \in 1..Len(filename_suffixes) |-> LowerSeq(filename_suffixes[i])]]

\* Mutant of ExceedsMaxSize: the limit itself is already too large.
ExceedsMaxSizeOnEqual(f, size) ==
    /\ f.max_size.kind = "int"
    /\ \/ size.kind = "int" /\ size.n >= f.max_size.n
       \/ size.kind = "str" /\ ParseInt(size.text).ok
             /\ ParseInt(size.text).n >= f.max_size.n

\* The size test of should_include: int(size) for a str, then
\* file_size > max_size; a ValueError or TypeError skips the test.
ExceedsMaxSize(f, size) ==
    /\ f.max_size.kind = "int"
    /\ \/ size.kind = "int" /\ size.n > f.max_size.n
       \/ size.kind = "str" /\ ParseInt(size.text).ok
             /\ ParseInt(size.text).n > f.max_size.n

\* Mutant of ExtensionAllowed: an empty allow-list allows nothing.
ExtensionListed(f, filename) ==
    \E i \in 1..Len(f.extensions) : f.extensions[i] = GetFileExtension(filename)

\* if self.extensions: file_ext not in self.extensions excludes the file
ExtensionAllowed(f, filename) ==
    f.extensions # <<>> =>
        \E i \in 1..Len(f.extensions) : f.extensions[i] = GetFileExtension(filename)

\* FileFilter.should_include(file_info)
ShouldInclude(f, file_info) ==
    IF file_info.is_directory
    THEN /\ f.include_directories
         /\ ~MatchesExcludePatterns(f.exclude_patterns, file_info.name, file_info.path)
    ELSE /\ ~ExceedsMaxSize(f, file_info.size)
         /\ ExtensionAllowed(f, file_info.name)
         /\ f.filename_prefixes # <<>> =>
               \E i \in 1..Len(f.filename_prefixes) :
                   StartsWith(LowerSeq(file_info.name), f.filename_prefixes[i])
         /\ f.filename_suffixes # <<>> =>
               \E i \in 1..Len(f.filename_suffixes) :
                   EndsWith(LowerSeq(WithoutExtension(file_info.name)),
                            f.filename_suffixes[i])
         /\ ~MatchesExcludePatterns(f.exclude_patterns, file_info.name, file_info.path)

\* str(n) for n >= 0: how a size arrives as numeric text.
RECURSIVE FormatInt(_)
FormatInt(n) ==
    IF n < 10 THEN <<Digits[n + 1]>>
    ELSE FormatInt(n \div 10) \o <<Digits[(n % 10) + 1]>>

\* FileInfo as the filter reads it.
FileInfo(name, path, size, is_directory) ==
    [name |-> name, path |-> path, size |-> size, is_directory |-> is_directory]

SharePath == <<"/", "/", "h", "/", "s">>
JoinPath(dir, name) == dir \o <<"/">> \o name

\* The names on the share.
NameTxt == <<"a", ".", "t", "x", "t">>
NameZip == <<"c", ".", "Z", "I", "P">>
NameTmp == <<"x", ".", "t", "m", "p">>
NameSub == <<"s", "u", "b">>

\* The extensions argument as the caller writes it.
ExtensionArguments ==
    {<<>>, << <<"z", "i", "p">> >>, << <<".", "Z", "I", "P">> >>,
     << <<"t", "x", "t">>, <<"z", "i", "p">> >>}

\* The arguments FileFilter is built with.
FilterArguments ==
    {FileFilter(e, m, x, d, p, q) :
        e \in ExtensionArguments,
        m \in {NoneValue, IntValue(SizeLimit), StrValue(FormatInt(SizeLimit)),
               StrValue(<<"a", "b", "c">>)},
        x \in {<<>>, << <<"*", ".", "t", "m", "p">> >>, << NameSub >>,
               << RegexPrefix \o <<"T", "X">> >>,
               << <<"*", "/", "c", ".", "*">> >>},
        d \in BOOLEAN,
        p \in {<<>>, << <<"A">> >>},
        q \in {<<>>, << <<"a">> >>}}

\* Sizes on both sides of the limit, as int and as text, and sizes that
\* cannot be compared.
Sizes ==
    {IntValue(n) : n \in {SizeLimit - 1, SizeLimit, SizeLimit + 1}}
    \cup {StrValue(FormatInt(n)) : n \in {SizeLimit - 1, SizeLimit, SizeLimit + 1}}
    \cup {StrValue(<<" ">> \o FormatInt(SizeLimit + 1)),
          StrValue(<<"a", "b", "c">>), StrValue(<<>>), NoneValue}

FileInfos ==
    {FileInfo(n, JoinPath(SharePath, n), z, FALSE) :
        n \in {NameTxt, NameZip, NameTmp}, z \in Sizes}
    \cup {FileInfo(n, JoinPath(SharePath, n), IntValue(0), TRUE) : n \in {NameSub, NameTmp}}

NoFilterCall ==
    [state |-> "none",
     extensions |-> <<>>,
     filter |-> FileFilter(<<>>, NoneValue, <<>>, TRUE, <<>>, <<>>),
     file_info |-> FileInfo(NameSub, JoinPath(SharePath, NameSub), IntValue(0), TRUE),
     result |-> FALSE]

\* file_filter.should_include(file_info) returns.
ShouldIncludeCall ==
    /\ flt.state = "called"
    /\ flt' = [flt EXCEPT !.state = "returned",
                          !.result = ShouldInclude(flt.filter, flt.file_info)]
    /\ UNCHANGED <<syncVars, zipCall, op, candidate, walk, zips, manager>>

\* ---------------------------------------------------------- discover_files
\* The share as a tree of nodes: node 0 is base_path; 1, 2, 3 are files and
\* 4 a directory in it; 5 is a file in directory 4.
RootNode == 0
Nodes == 0..5
NodeParent == [n \in 1..5 |-> IF n = 5 THEN 4 ELSE RootNode]
NodeIsDir(n) == n \in {RootNode, 4}
NameTxt2 == <<"b", ".", "t", "x", "t">>
NodeName == <<NameTxt, NameTxt2, NameZip, NameSub, NameZip>>

RECURSIVE NodePath(_)
NodePath(n) ==
    IF n = RootNode THEN SharePath ELSE JoinPath(NodePath(NodeParent[n]), NodeName[n])

\* What the file system says of each node: "absent"; "ok"; "nostat" (listed
\* by its directory, but os.stat on it fails); for a directory also
\* "nolist" (os.stat works, os.scandir on it fails). Nothing is known below
\* an absent directory.
Trees ==
    {t \in [Nodes -> {"absent", "ok", "nostat", "nolist"}] :
        /\ t[RootNode] \in {"ok", "nolist"}
        /\ \A n \in 1..5 : ~NodeIsDir(n) => t[n] # "nolist"
        /\ \A n \in 1..5 : t[NodeParent[n]] = "absent" => t[n] = "absent"}

\* FileDiscoveryService.get_file_info(path) when os.stat succeeds.
GetFileInfo(n) == FileInfo(NodeName[n], NodePath(n), IntValue(n), NodeIsDir(n))

\* The entries os.scandir(d) lists, in listing order, files or directories.
RECURSIVE ListedSeq(_, _, _, _)
ListedSeq(t, d, dirs, n) ==
    IF n > 5 THEN <<>>
    ELSE (IF NodeParent[n] = d /\ t[n] # "absent" /\ NodeIsDir(n) = dirs
          THEN <<n>> ELSE <<>>) \o ListedSeq(t, d, dirs, n + 1)

Listed(t, d, dirs) == ListedSeq(t, d, dirs, 1)

\* Mutant of ChildDirsWalked: only directories the filter includes are
\* descended into.
ChildDirsWalkedIfIncluded(t, filter, d) ==
    SelectSeq(Listed(t, d, TRUE),
              LAMBDA c : ~filter.given \/ ShouldInclude(filter.f, GetFileInfo(c)))

\* The sub-directories of d os.walk goes on with: all that it listed (the
\* loop body removes none: its handler for an unreadable directory is
\* never reached, see UnreadableEntry).
ChildDirsWalked(t, filter, d) == Listed(t, d, TRUE)

\* os.walk(base_path), top down, onerror=None: a directory whose scandir
\* fails yields nothing and is passed over without an error.
RECURSIVE WalkChildren(_, _, _)
RECURSIVE Walk(_, _, _)
Walk(t, filter, d) ==
    IF t[d] = "nolist" THEN <<>>
    ELSE <<d>> \o WalkChildren(t, filter, ChildDirsWalked(t, filter, d))

WalkChildren(t, filter, ds) ==
    IF ds = <<>> THEN <<>>
    ELSE Walk(t, filter, Head(ds)) \o WalkChildren(t, filter, Tail(ds))

\* The entries the loop body calls get_file_info on: for each directory
\* os.walk yields, its files, then its sub-directories.
RECURSIVE VisitedOf(_, _)
VisitedOf(t, walked) ==
    IF walked = <<>> THEN <<>>
    ELSE Listed(t, Head(walked), FALSE) \o Listed(t, Head(walked), TRUE)
         \o VisitedOf(t, Tail(walked))

\* get_file_info turns the OSError of os.stat into FileAccessError, which
\* is no OSError: neither "except (PermissionError, OSError)" of
\* discover_files catches it.
UnreadableEntry(t, visited) == \E i \in 1..Len(visited) : t[visited[i]] = "nostat"

RECURSIVE InfoSeq(_)
InfoSeq(ns) == IF ns = <<>> THEN <<>> ELSE <<GetFileInfo(Head(ns))>> \o InfoSeq(Tail(ns))

\* discover_files(file_filter=filter) over the tree.
DiscoverFilesResult(t, filter) ==
    LET visited == VisitedOf(t, Walk(t, filter, RootNode))
        kept == SelectSeq(visited,
                    LAMBDA n : ~filter.given \/ ShouldInclude(filter.f, GetFileInfo(n)))
    IN  IF UnreadableEntry(t, visited)
        THEN [state |-> "raised", error |-> "FileAccessError", files |-> <<>>]
        ELSE [state |-> "returned", error |-> "none", files |-> InfoSeq(kept)]

\* file_filter: None, or a FileFilter.
NoFilter == [given |-> FALSE, f |-> FileFilter(<<>>, NoneValue, <<>>, TRUE, <<>>, <<>>)]

DiscoveryFilters ==
    {NoFilter}
    \cup {[given |-> TRUE, f |-> FileFilter(e, NoneValue, x, d, <<>>, <<>>)] :
            e \in {<<>>, << <<"z", "i", "p">> >>},
            x \in {<<>>, << NameSub >>},
            d \in BOOLEAN}

NoWalk ==
    [state |-> "none", tree |-> [n \in Nodes |-> "absent"], filter |-> NoFilter,
     error |-> "none", files |-> <<>>]

\* discover_files returns or raises.
DiscoverFilesCall ==
    /\ walk.state = "called"
    /\ LET r == DiscoverFilesResult(walk.tree, walk.filter)
       IN walk' = [walk EXCEPT !.state = r.state, !.error = r.error, !.files = r.files]
    /\ UNCHANGED <<syncVars, zipCall, op, candidate, flt, zips, manager>>

\* ------------------------------------------------ WindowsFileSync.__init__
LogLevels == {"DEBUG", "INFO", "WARNING", "ERROR", "CRITICAL"}

\* SyncConfig() with every field at its default.
DefaultSyncConfig ==
    [max_concurrent_transfers |-> DefaultMaxConcurrentTransfers,
     retry_attempts |-> DefaultRetryAttempts,
     chunk_size |-> DefaultChunkSize, log_level |-> "INFO"]

\* The configurations a caller may hand to the constructor: values on both
\* sides of each limit validate() checks, and (config or SyncConfig()) the
\* default one.
Candidates ==
    [max_concurrent_transfers : 0..MaxCap,
     retry_attempts : -1..DefaultRetryAttempts,
     chunk_size : {MinChunkSize - 1, MinChunkSize},
     log_level : {"INFO", "VERBOSE"}] \cup {DefaultSyncConfig}

\* Mutant of ValidateRaises: a limiter of width 0 is let through.
ValidateRaisesBelowZero(c) ==
    \/ c.max_concurrent_transfers < 0
    \/ c.retry_attempts < 0
    \/ c.chunk_size < MinChunkSize
    \/ c.log_level \notin LogLevels

\* SyncConfig.validate raises ValueError
ValidateRaises(c) ==
    \/ c.max_concurrent_transfers < 1
    \/ c.retry_attempts < 0
    \/ c.chunk_size < MinChunkSize
    \/ c.log_level \notin LogLevels

\* WindowsFileSync(share_path, config): self.config is set, validate() runs
\* and its ValueError becomes WindowsFileSyncError; so does any failure of
\* building the components. Otherwise the object exists and sync_files is
\* called on it.
Construct ==
    /\ pc = "init"
    /\ config' = [retry_attempts |-> candidate.retry_attempts,
                  max_concurrent_transfers |-> candidate.max_concurrent_transfers]
    /\ \/ /\ ValidateRaises(candidate)
          /\ pc' = "raised"
          /\ error' = "WindowsFileSyncError"
          /\ phases' = phases
       \/ /\ ~ValidateRaises(candidate)
          /\ \/ pc' = "raised" /\ error' = "WindowsFileSyncError" /\ phases' = phases
             \/ pc' = "validate_local" /\ error' = error
                   /\ phases' = <<"validate_local">>
    /\ UNCHANGED <<call, run, attempt, share, files, space, monitor, summary, snap>>
    /\ UNCHANGED copyState
    /\ UNCHANGED otherVars

\* -------------------------------------------------------- _retry_operation
\* The operations sync_files and list_files pass to _retry_operation, with
\* the exceptions each can raise.
RetriedOperations ==
    [validate_path |-> {"ShareAccessError"},
     test_access |-> {"AuthenticationError", "ShareAccessError"},
     discover_files |-> {"FileAccessError"}]

\* What the operation does on its successive calls: it returns ("ok") or
\* raises; two calls more than the largest retry count allows are foreseen.
OutcomeLen == DefaultRetryAttempts + 2

OperationOutcomes(o) == [1..OutcomeLen -> {"ok"} \cup RetriedOperations[o]]

\* Mutant of RetryAgain: one more round after the last allowed attempt.
RetryAgainOnceMore(a) == a <= config.retry_attempts

\* except Exception: if attempt < self.config.retry_attempts (sleep, loop on)
RetryAgain(a) == a < config.retry_attempts

\* One iteration of for attempt in range(retry_attempts + 1): the operation
\* is called; its result is returned, or its exception is kept as
\* last_exception and the loop sleeps, or, after the last iteration, raises
\* last_exception.
CallOperation ==
    /\ op.state = "running"
    /\ op.calls < OutcomeLen
    /\ LET k == op.calls + 1
           out == op.outcomes[k]
           e == [type |-> out, at |-> k]
       IN  IF out = "ok"
           THEN op' = [op EXCEPT !.state = "returned", !.calls = k, !.result = k]
           ELSE IF RetryAgain(op.attempt)
                THEN op' = [op EXCEPT !.state = "sleeping", !.calls = k,
                                      !.last_exception = e, !.sleeps = @ + 1]
                ELSE op' = [op EXCEPT !.state = "raised", !.calls = k,
                                      !.last_exception = e, !.raised = e]
    /\ UNCHANGED <<syncVars, zipCall, candidate, flt, walk, zips, manager>>

\* await asyncio.sleep(retry_delay) returns: the next iteration.
SleepReturns ==
    /\ op.state = "sleeping"
    /\ op' = [op EXCEPT !.state = "running", !.attempt = @ + 1]
    /\ UNCHANGED <<syncVars, zipCall, candidate, flt, walk, zips, manager>>

\* ---------------------------------------------------- ZipProcessingService
\* The markers _extract_vehicle_model looks for in an archive name.
MarkerReleasePackage == <<"V", "B", "F", "_", "R", "e", "l", "e", "a", "s", "e", "P", "a", "c", "k", "a", "g", "e", "_">>
MarkerVBF == <<"V", "B", "F", "_">>
MarkerMCU == <<"_", "M", "C", "U">>
MarkerSOC == <<"_", "S", "O", "C">>
PrefixSOC == <<"S", "O", "C", "_">>

\* t.find(sub, start), positions counted from 1: the first position at or
\* after from where sub begins, 0 when there is none.
Find(t, sub, from) ==
    LET at == {i \in from..(Len(t) - Len(sub) + 1) : SubSeq(t, i, i + Len(sub) - 1) = sub}
    IN  IF at = {} THEN 0 ELSE CHOOSE i \in at : \A j \in at : i <= j

\* sub in t
Contains(t, sub) == Find(t, sub, 1) # 0

\* Path(name).stem: the name without its last suffix.
Stem(name) ==
    LET i == LastIndexOf(name, ".")
    IN  IF 1 < i /\ i < Len(name) THEN SubSeq(name, 1, i - 1) ELSE name

\* _extract_vehicle_model(zip_filename, category), called with "MCU" or "SOC".
ExtractVehicleModel(zip_filename, category) ==
    LET name == Stem(zip_filename)
        start_idx == Find(name, MarkerReleasePackage, 1) + Len(MarkerReleasePackage)
        end_idx == Find(name, MarkerMCU, start_idx)
        potential_vehicle == SubSeq(name, 1, Find(name, MarkerMCU, 1) - 1)
        soc_start == Find(name, MarkerVBF, 1) + Len(MarkerVBF)
        soc_end == Find(name, MarkerSOC, soc_start)
    IN  IF category = "MCU"
        THEN IF /\ Contains(name, MarkerReleasePackage) /\ Contains(name, MarkerMCU)
                /\ end_idx > start_idx
             THEN SubSeq(name, start_idx, end_idx - 1)
             ELSE IF Contains(name, MarkerMCU)
                  THEN IF StartsWith(potential_vehicle, MarkerReleasePackage)
                       THEN SubSeq(potential_vehicle, Len(MarkerReleasePackage) + 1,
                                   Len(potential_vehicle))
                       ELSE IF StartsWith(potential_vehicle, MarkerVBF)
                            THEN SubSeq(potential_vehicle, Len(MarkerVBF) + 1,
                                        Len(potential_vehicle))
                            ELSE potential_vehicle
                  ELSE name
        ELSE IF /\ Contains(name, MarkerVBF) /\ Contains(name, MarkerSOC)
                /\ soc_end > soc_start
             THEN PrefixSOC \o SubSeq(name, soc_start, soc_end - 1)
             ELSE PrefixSOC \o name

Categories == {"MCU", "SOC"}

\* The archives that may lie under base_path/MCU and base_path/SOC: the
\* category subdirectory, the file name and the one member a healthy,
\* non-empty archive holds.
ArchiveFiles ==
    << [category |-> "MCU", member |-> "f",
        name |-> MarkerReleasePackage \o <<"E", "2", "_", "M", "C", "U", "_", "R", "1", ".", "z", "i", "p">>],
       [category |-> "MCU", member |-> "f",
        name |-> <<"E", "2", ".", "z", "i", "p">>],
       [category |-> "MCU", member |-> "f",
        name |-> <<"S", "O", "C", "_", "b", "_", "M", "C", "U", ".", "z", "i", "p">>],
       [category |-> "SOC", member |-> "g",
        name |-> <<"V", "B", "F", "_", "P", "1", "_", "S", "O", "C", "_", "J", "1", ".", "z", "i", "p">>],
       [category |-> "SOC", member |-> "f",
        name |-> <<"b", ".", "z", "i", "p">>] >>

ArchiveIds == 1..Len(ArchiveFiles)

\* What an archive is when the run begins: not there, not a zip file, a zip
\* file without members, a zip file with its member.
ArchiveKinds == {"absent", "corrupt", "empty", "full"}

\* The trees a run may meet: at most NumArchives archives.
Sources ==
    {k \in [ArchiveIds -> ArchiveKinds] :
        Cardinality({i \in ArchiveIds : k[i] # "absent"}) <= NumArchives}

\* Relative paths inside an output directory; a directory maps each to the
\* archive its content came from, 0 where there is no file.
Paths == {"f", "g"}
EmptyDirectory == [p \in Paths |-> 0]

\* output_directory itself, for extract_all_zips without sub-directories.
OutputRoot == <<>>

\* d.exists() and any(d.iterdir())
NonEmpty(output, d) == d \in DOMAIN output /\ \E p \in Paths : output[d][p] # 0

\* f"{original_subdir.name}_{counter}"
NumberedName(name, counter) == name \o <<"_">> \o FormatInt(counter)

\* Mutant of OutputSubdir: the derived name is used whatever it holds.
OutputSubdirAsDerived(output, name, counter) == name

\* The while loop of _process_directory_zips: the derived name, or the first
\* of name_1, name_2, ... that is not a non-empty directory (counter 0 is
\* the derived name itself).
RECURSIVE OutputSubdir(_, _, _)
OutputSubdir(output, name, counter) ==
    LET d == IF counter = 0 THEN name ELSE NumberedName(name, counter)
    IN  IF NonEmpty(output, d) THEN OutputSubdir(output, name, counter + 1) ELSE d

\* d.mkdir(parents=True, exist_ok=True)
MakeDirectory(output, d) ==
    IF d \in DOMAIN output THEN output ELSE (d :> EmptyDirectory) @@ output

\* No ZipProcessingService run is looked at.
NoArchiveRun ==
    [op |-> "none", pc |-> "none", category |-> "MCU",
     keep_original |-> FALSE, copy_soc_to_mcu |-> FALSE, create_subdirs |-> FALSE,
     kind |-> [i \in ArchiveIds |-> "absent"],
     present |-> [i \in ArchiveIds |-> FALSE],
     folders |-> [c \in Categories |-> FALSE],
     zip_files |-> <<>>,
     output |-> [d \in {} |-> EmptyDirectory],
     extracted_to |-> [i \in {} |-> OutputRoot],
     unlink_failed |-> {},
     total_zip_files |-> 0, processed_zip_files |-> 0, failed_zip_files |-> 0,
     extracted_files |-> 0, merged_directories |-> <<>>, errors |-> <<>>]

\* list(source_dir.rglob("*.zip")) for the archives under these categories.
ZipFiles(z, categories) ==
    SelectSeq([i \in ArchiveIds |-> i],
              LAMBDA i : z.present[i] /\ ArchiveFiles[i].category \in categories)

\* The except branch of the archive loop.
ArchiveFailed(z) ==
    [z EXCEPT !.failed_zip_files = @ + 1, !.errors = Append(@, "zip_failed")]

\* Mutant of Unlinked: every archive extracted is unlinked.
UnlinkedAlways(z, i, unlinks) == [z EXCEPT !.present[i] = FALSE]

\* if not keep_original: zip_file.unlink(), which removes the archive or
\* raises into the except branch of the loop.
Unlinked(z, i, unlinks) ==
    IF z.keep_original THEN z
    ELSE IF unlinks THEN [z EXCEPT !.present[i] = FALSE]
    ELSE ArchiveFailed([z EXCEPT !.unlink_failed = @ \cup {i}])

\* One iteration of the archive loop: _extract_zip_file raises for a file
\* that is not a zip archive; otherwise the members are written, the
\* archive is counted as processed and, unless kept, unlinked.
ArchiveIteration(z, i, extract_dir, listed, unlinks) ==
    LET made == MakeDirectory(z.output, extract_dir)
        count == IF z.kind[i] = "full" THEN 1 ELSE 0
        tried == [z EXCEPT !.zip_files = Tail(@), !.output = made]
        extracted ==
            [tried EXCEPT
                !.output = IF count = 1
                           THEN [made EXCEPT ![extract_dir][ArchiveFiles[i].member] = i]
                           ELSE made,
                !.processed_zip_files = @ + 1,
                !.extracted_files = @ + count,
                !.merged_directories = IF listed THEN Append(@, extract_dir) ELSE @,
                !.extracted_to = (i :> extract_dir) @@ @]
    IN  IF z.kind[i] = "corrupt" THEN ArchiveFailed(tried)
        ELSE Unlinked(extracted, i, unlinks)

archiveFrame == <<syncVars, zipCall, op, candidate, flt, walk, manager>>

\* process_mcu_soc_structure: if mcu_path.exists() / if soc_path.exists(),
\* and the rglob at the head of _process_directory_zips.
ProcessDirectoryZips ==
    /\ zips.op = "process_mcu_soc_structure"
    /\ zips.pc = "exists"
    /\ zips' = IF zips.folders[zips.category]
               THEN [zips EXCEPT !.pc = "zips",
                                 !.zip_files = ZipFiles(zips, {zips.category}),
                                 !.total_zip_files = @ + Len(ZipFiles(zips, {zips.category}))]
               ELSE IF zips.category = "MCU"
                    THEN [zips EXCEPT !.category = "SOC"]
                    ELSE [zips EXCEPT !.pc = "copy_soc_to_mcu"]
    /\ UNCHANGED archiveFrame

\* One archive of _process_directory_zips.
ProcessZipFile ==
    /\ zips.op = "process_mcu_soc_structure"
    /\ zips.pc = "zips"
    /\ zips.zip_files # <<>>
    /\ \E unlinks \in BOOLEAN :
          LET i == Head(zips.zip_files)
              dir_name == ExtractVehicleModel(ArchiveFiles[i].name, zips.category)
          IN  zips' = ArchiveIteration(zips, i, OutputSubdir(zips.output, dir_name, 0),
                                       TRUE, unlinks)
    /\ UNCHANGED archiveFrame

\* _process_directory_zips returns its result to process_mcu_soc_structure.
DirectoryZipsProcessed ==
    /\ zips.op = "process_mcu_soc_structure"
    /\ zips.pc = "zips"
    /\ zips.zip_files = <<>>
    /\ zips' = IF zips.category = "MCU"
               THEN [zips EXCEPT !.pc = "exists", !.category = "SOC"]
               ELSE [zips EXCEPT !.pc = "copy_soc_to_mcu"]
    /\ UNCHANGED archiveFrame

\* Path(d).name.startswith('SOC_') sorts the output directories.
IsSocDirectory(d) == StartsWith(d, PrefixSOC)

\* The (mcu_dir, soc_dir) pairs in the order the two loops take them.
DirectoryPairs(mcu_directories, soc_directories) ==
    [k \in 1..(Len(mcu_directories) * Len(soc_directories)) |->
        <<mcu_directories[((k - 1) \div Len(soc_directories)) + 1],
          soc_directories[((k - 1) % Len(soc_directories)) + 1]>>]

\* _copy_directory_contents(source_dir, target_dir): every file of the
\* source is copied to the same relative path of the target.
CopyDirectoryContents(output, source_dir, target_dir) ==
    [output EXCEPT ![target_dir] =
        [p \in Paths |-> IF output[source_dir][p] # 0 THEN output[source_dir][p] ELSE @[p]]]

\* The loops of _copy_soc_to_mcu_directories from pair k on; the copy of
\* pair `raising` raises before its first file and is recorded as an error.
RECURSIVE CopySocToMcu(_, _, _, _)
CopySocToMcu(z, pairs, k, raising) ==
    IF k > Len(pairs) THEN z
    ELSE LET mcu_dir == pairs[k][1]
             soc_dir == pairs[k][2]
             copied_count == Cardinality({p \in Paths : z.output[soc_dir][p] # 0})
         IN  CopySocToMcu(
                 IF k = raising
                 THEN [z EXCEPT !.errors = Append(@, "copy_failed")]
                 ELSE [z EXCEPT !.output = CopyDirectoryContents(@, soc_dir, mcu_dir),
                                !.extracted_files = @ + copied_count],
                 pairs, k + 1, raising)

\* if copy_soc_to_mcu and mcu_path.exists() and soc_path.exists():
\* _copy_soc_to_mcu_directories(output_path, merged_directories)
CopySocToMcuDirectories ==
    /\ zips.op = "process_mcu_soc_structure"
    /\ zips.pc = "copy_soc_to_mcu"
    /\ IF zips.copy_soc_to_mcu /\ zips.folders["MCU"] /\ zips.folders["SOC"]
       THEN LET soc_directories == SelectSeq(zips.merged_directories, IsSocDirectory)
                mcu_directories == SelectSeq(zips.merged_directories,
                                             LAMBDA d : ~IsSocDirectory(d))
                pairs == DirectoryPairs(mcu_directories, soc_directories)
            IN  \E raising \in 0..Len(pairs) :
                   zips' = [CopySocToMcu(zips, pairs, 1, raising) EXCEPT !.pc = "cleanup"]
       ELSE zips' = [zips EXCEPT !.pc = "cleanup"]
    /\ UNCHANGED archiveFrame

\* Mutant of FolderRemoved: a failed rmtree is not recorded.
FolderRemovedOrIgnored(z, category, removed) ==
    IF ~z.folders[category] \/ ~removed THEN z
    ELSE [z EXCEPT !.folders[category] = FALSE,
                   !.present = [i \in ArchiveIds |->
                                   @[i] /\ ArchiveFiles[i].category # category]]

\* cleanup_original_folders for one category: shutil.rmtree removes the
\* folder with everything in it, or raises and the error is recorded.
FolderRemoved(z, category, removed) ==
    IF ~z.folders[category] THEN z
    ELSE IF removed
         THEN [z EXCEPT !.folders[category] = FALSE,
                        !.present = [i \in ArchiveIds |->
                                        @[i] /\ ArchiveFiles[i].category # category]]
         ELSE [z EXCEPT !.errors = Append(@, IF category = "MCU"
                                             THEN "mcu_delete_failed"
                                             ELSE "soc_delete_failed")]

\* cleanup_original_folders, its errors added to the list, and the
\* ZipProcessingSummary returned.
CleanupOriginalFolders ==
    /\ zips.op = "process_mcu_soc_structure"
    /\ zips.pc = "cleanup"
    /\ \E mcu_removed, soc_removed \in BOOLEAN :
          zips' = [FolderRemoved(FolderRemoved(zips, "MCU", mcu_removed), "SOC", soc_removed)
                      EXCEPT !.pc = "returned"]
    /\ UNCHANGED archiveFrame

\* extract_all_zips: output_directory.mkdir and list(directory.rglob("*.zip"))
ExtractAllZips ==
    /\ zips.op = "extract_all_zips"
    /\ zips.pc = "rglob"
    /\ zips' = [zips EXCEPT !.pc = "zips",
                            !.output = MakeDirectory(@, OutputRoot),
                            !.zip_files = ZipFiles(zips, Categories),
                            !.total_zip_files = Len(ZipFiles(zips, Categories))]
    /\ UNCHANGED archiveFrame

\* One archive of extract_all_zips: into output_directory / stem with
\* create_subdirs, else into output_directory.
ExtractZipFile ==
    /\ zips.op = "extract_all_zips"
    /\ zips.pc = "zips"
    /\ zips.zip_files # <<>>
    /\ \E unlinks \in BOOLEAN :
          LET i == Head(zips.zip_files)
              extract_dir == IF zips.create_subdirs THEN Stem(ArchiveFiles[i].name)
                             ELSE OutputRoot
          IN  zips' = ArchiveIteration(zips, i, extract_dir, zips.create_subdirs, unlinks)
    /\ UNCHANGED archiveFrame

\* extract_all_zips returns its ZipProcessingSummary.
AllZipsExtracted ==
    /\ zips.op = "extract_all_zips"
    /\ zips.pc = "zips"
    /\ zips.zip_files = <<>>
    /\ zips' = [zips EXCEPT !.pc = "returned"]
    /\ UNCHANGED archiveFrame

\* ---------------------------------------------------- WindowsShareManager
\* The characters a share_path is made of: the two separators and one
\* character that is not a separator.
Slash == "/"
Backslash == "\\"
PathChars == {Slash, Backslash, "a"}

RECURSIVE PathsOfLen(_)
PathsOfLen(n) ==
    IF n = 0 THEN {<<>>}
    ELSE {Append(t, c) : t \in PathsOfLen(n - 1), c \in PathChars}

SharePaths == UNION {PathsOfLen(n) : n \in 0..MaxPathLen}

\* t.replace(from, to) for single characters.
ReplaceChar(t, from, to) == [i \in 1..Len(t) |-> IF t[i] = from THEN to ELSE t[i]]

\* t.rstrip(c)
RECURSIVE RStrip(_, _)
RStrip(t, c) ==
    IF t # <<>> /\ t[Len(t)] = c THEN RStrip(SubSeq(t, 1, Len(t) - 1), c) ELSE t

\* WindowsShareManager.normalize_path for share_path.
NormalizePath(share_path) ==
    LET replaced == ReplaceChar(share_path, Slash, Backslash)
        prefixed ==
            IF StartsWith(replaced, <<Backslash, Backslash>>) THEN replaced
            ELSE IF StartsWith(replaced, <<Backslash>>) THEN <<Backslash>> \o replaced
            ELSE <<Backslash, Backslash>> \o replaced
    IN  RStrip(prefixed, Backslash)

NoManager == [state |-> "none", share_path |-> <<>>, normalized_path |-> <<>>]

\* WindowsShareManager.__init__(share_path)
ManagerInit ==
    /\ manager.state = "called"
    /\ manager' = [manager EXCEPT !.state = "initialized",
                                  !.normalized_path = NormalizePath(manager.share_path)]
    /\ UNCHANGED <<syncVars, zipCall, op, candidate, flt, walk, zips>>

\* ------------------------------------------------------------ properties
FileIds(list) == {e.id : e \in FileEntries(list)}
DirIds(list) == {e.id : e \in DirEntries(list)}

\* The task has been dispatched: it was admitted by the Semaphore.
Started(f) == task[f].pc \in {"sleeping", "done"}

\* results holds an outcome of file f with this error_message.
HasResult(f, msg) ==
    \E r \in BagToSet(results) : r.file = f /\ r.error_message = msg

\* The call has changed nothing under the local root.
LocalUntouched ==
    /\ rootExists = snap.root
    /\ local = snap.local
    /\ localDirs = OldDirs(snap.root)

PhaseOrder ==
    <<"validate_local", "validate_remote", "probe", "discover", "space",
      "progress", "transfer">>

IsPrefix(s, t) == Len(s) <= Len(t) /\ \A i \in 1..Len(s) : s[i] = t[i]

InPhases(p) == \E i \in 1..Len(phases) : phases[i] = p

\* C1: at most max_concurrent_transfers file-copy tasks are at any time
\* admitted by the Semaphore and not yet finished.
C1_ConcurrencyCap == Cardinality(InFlight) <= config.max_concurrent_transfers

\* C1 witness: every slot is taken and a further task waits for admission.
C1_Witness ==
    /\ pc = "gather"
    /\ Cardinality(InFlight) = config.max_concurrent_transfers
    /\ \E f \in Files : task[f].pc = "created"

\* C2: while any task of the batch is dispatched, every directory entry of
\* file_list exists under the local root.
C2_DirectoriesBeforeFiles ==
    (pc = "gather" \/ \E f \in Files : Started(f))
        => DirIds(files) \subseteq localDirs

\* C2 witness: a new local root, a batch with a directory entry, a task begun.
C2_Witness ==
    /\ ~snap.root
    /\ DirIds(files) # {}
    /\ \E f \in Files : Started(f) /\ task[f].attempt >= 1

\* C3: whatever copies fail, copy_files does not raise once the tasks run,
\* every non-directory entry is attempted and a TransferSummary is returned.
C3_BatchNeverAborts ==
    /\ pc = "raised" => \A f \in Files : ~Started(f)
    /\ (pc = "done" /\ files # {}) =>
          /\ summary.returned
          /\ \A f \in FileIds(files) : task[f].attempt >= 1

\* C3, restricted to configurations whose retry loop runs at least once.
C3_BatchNeverAborts_LoopRuns == config.retry_attempts >= 1 => C3_BatchNeverAborts

\* C4: a copy that fails with an exception is tried again until the retry
\* count is used up, and only then recorded as failed; a success after
\* failed attempts is the file's one outcome, with that attempt's bytes.
C4_RetriedUntilExhausted ==
    \A r \in BagToSet(results) :
        /\ (~r.success /\ r.error_message # "already_exists")
              => task[r.file].attempt = config.retry_attempts
        /\ r.success =>
              /\ results[r] = 1
              /\ r.bytes_transferred = FileEntry(r.file).size
              /\ \A q \in BagToSet(results) : q.file = r.file => q = r

\* C5: the summary counts one outcome per non-directory entry.
C5_OneOutcomePerFile ==
    (pc = "done" /\ summary.returned) =>
        summary.successful_files + summary.failed_files
            = Cardinality(FileEntries(files))

\* C6: with overwrite false, a file whose target exists when the batch
\* runs gets a failed "already exists" outcome and its content is kept.
C6_ExistingTargetKept ==
    (pc = "done" /\ ~call.overwrite /\ ~call.clear_destination) =>
        \A f \in FileIds(files) :
            snap.local[f] = "old" =>
                HasResult(f, "already_exists") /\ local[f] = "old"

\* C7: a second sync with overwrite false after a first one that returned:
\* no successful file, an "already exists" failure for every non-directory
\* entry, nothing the first run left is changed or removed.
C7_SecondRunIdempotent ==
    (run = 2 /\ pc = "done" /\ ~call.overwrite /\ snap.returned) =>
        /\ summary.successful_files = 0
        /\ \A f \in FileIds(files) : HasResult(f, "already_exists")
        /\ \A f \in Files : snap.local[f] = "old" => local[f] = "old"

\* C8: with clear_destination and an existing local root, the old tree is
\* gone before any directory is created or file copied, nothing old is
\* there afterwards, and a failed clearing raises TransferError with no file
\* copied.
C8_ClearedBeforeCopy ==
    (call.clear_destination /\ snap.root /\ InPhases("transfer")) =>
        /\ pc = "mkroot" => local = ClearedLocal /\ localDirs = {}
        /\ pc \in {"mkroot", "mkdirs", "gather", "done"} =>
              /\ \A f \in Files : local[f] # "old"
              /\ localDirs \subseteq DirIds(files)
        /\ pc = "raised" =>
              /\ \A f \in Files : local[f] \notin {"full", "partial"}
              /\ error = "TransferError" \/ \A f \in Files : local[f] # "old"

\* C8 witness: an old tree was cleared and a file then copied.
C8_Witness ==
    /\ call.clear_destination /\ snap.root
    /\ pc = "done"
    /\ \E f \in Files : local[f] = "full"

\* C9: free space below the total size of the non-directory entries raises
\* TransferError with the local root untouched; equal space passes; a failed
\* inquiry lets the sync go on.
C9_SpaceCheck ==
    /\ (space.status = "measured" /\ space.available < TotalSize(files)) =>
          /\ pc = "raised" /\ error = "TransferError"
          /\ ~InPhases("progress") /\ ~InPhases("transfer")
          /\ LocalUntouched
    /\ (space.status = "measured" /\ space.available >= TotalSize(files)) =>
          pc = "progress"
    /\ space.status = "inquiry_failed" => pc = "progress"

\* C9 witness: the free space equals the required size and the sync goes on.
C9_Witness ==
    /\ space.status = "measured"
    /\ space.available = TotalSize(files)
    /\ pc = "progress"

\* C10: the phases run in the fixed order; an error before the transfer
\* ends the call with no later phase run and the local root untouched.
C10_PhaseOrder ==
    /\ IsPrefix(phases, PhaseOrder)
    /\ pc \notin {"raised", "done"} =>
          pc = phases[Len(phases)] \/ (InPhases("transfer") /\ pc \in {"mkroot", "mkdirs", "gather"})
    /\ pc = "raised" => error # "none" /\ ~summary.returned
    /\ (pc = "raised" /\ ~InPhases("transfer")) =>
          /\ LocalUntouched
          /\ \A f \in Files : task[f].pc = "none"
    /\ ~InPhases("transfer") =>
          LocalUntouched /\ results = EmptyBag

\* C10 witness: discovery failed on every attempt and the call ended there.
C10_Witness ==
    /\ pc = "raised"
    /\ phases = <<"validate_local", "validate_remote", "probe", "discover">>
    /\ config.retry_attempts >= 1
    /\ attempt = config.retry_attempts
    /\ snap.root /\ call.clear_destination

\* C11: when discovery with the filter yields no entry, sync_files returns the
\* all-zero TransferSummary with no errors; the space check, start_transfer
\* and copy_files have not run, and the local root is as it was (neither
\* cleared nor created) whatever clear_destination says.
C11_EmptyCatalogZeroSummary ==
    (pc = "done" /\ files = {}) =>
        /\ summary = [returned |-> TRUE, total_files |-> 0, successful_files |-> 0,
                      failed_files |-> 0, skipped_files |-> 0, total_bytes |-> 0,
                      transferred_bytes |-> 0, errors |-> EmptyBag]
        /\ phases = <<"validate_local", "validate_remote", "probe", "discover">>
        /\ space.status = "unchecked"
        /\ monitor = InitialMonitor
        /\ \A f \in Files : task[f].pc = "none"
        /\ results = EmptyBag
        /\ LocalUntouched

\* C11 witness: nothing discovered, clear_destination set, an old tree there.
C11_Witness ==
    /\ pc = "done" /\ files = {}
    /\ call.clear_destination
    /\ snap.root /\ \E f \in Files : local[f] = "old"

\* C12: once sync_files has returned, sync_and_process_zips returns the pair
\* (transfer_summary, zip_summary) with transfer_summary what sync_files
\* returned; a failure of the post-processor leaves zip_summary None and
\* raises nothing; with process_zips false the post-processor is not invoked
\* and zip_summary is None.
C12_ZipFailureCaught ==
    /\ (zipCall.state \notin {"none", "syncing"} /\ pc = "done") =>
          /\ zipCall.state = "returned"
          /\ zipCall.transfer_summary = summary
          /\ zipCall.failed => zipCall.zip_summary = "None"
    /\ zipCall.state = "raised" => pc = "raised" /\ ~summary.returned
    /\ ~zipCall.process_zips =>
          ~zipCall.invoked /\ zipCall.zip_summary = "None"

\* C12 witness: files were copied, the post-processor failed, the pair is back.
C12_Witness ==
    /\ zipCall.state = "returned"
    /\ zipCall.failed
    /\ summary.returned /\ summary.successful_files >= 1

\* C13: _retry_operation returns the result of the first successful call of
\* the operation, calls it at most retry_attempts + 1 times with one sleep
\* between two calls, and after retry_attempts + 1 failures raises the
\* exception of the last call.
C13_RetryOperation ==
    LET n == config.retry_attempts IN
    op.state # "none" =>
        /\ op.calls <= n + 1
        /\ op.sleeps <= n
        /\ op.state = "running" => op.sleeps = op.calls /\ op.attempt = op.calls
        /\ op.state = "sleeping" => op.sleeps = op.calls /\ op.attempt = op.calls - 1
        /\ op.state = "returned" =>
              /\ op.outcomes[op.calls] = "ok"
              /\ \A i \in 1..(op.calls - 1) : op.outcomes[i] # "ok"
              /\ op.result = op.calls
              /\ op.sleeps = op.calls - 1
        /\ op.state = "raised" =>
              /\ op.calls = n + 1
              /\ \A i \in 1..(n + 1) : op.outcomes[i] # "ok"
              /\ op.raised = [type |-> op.outcomes[n + 1], at |-> n + 1]
              /\ op.sleeps = n

\* C13 witness: every attempt failed, the first and the last with different
\* exceptions, and the call has raised.
C13_Witness ==
    /\ op.state = "raised"
    /\ config.retry_attempts >= 2
    /\ op.outcomes[1] # op.outcomes[config.retry_attempts + 1]

\* C14: a SyncConfig with max_concurrent_transfers < 1, retry_attempts < 0 or
\* chunk_size < 1024 fails validate(); the constructor given it raises
\* WindowsFileSyncError, and no step of a sync runs on it.
C14_InvalidConfigRejected ==
    (\/ candidate.max_concurrent_transfers < 1
     \/ candidate.retry_attempts < 0
     \/ candidate.chunk_size < 1024) =>
        /\ ValidateRaises(candidate)
        /\ pc \in {"init", "raised"}
        /\ phases = <<>>
        /\ pc = "raised" => error = "WindowsFileSyncError"
        /\ LocalUntouched /\ results = EmptyBag /\ ~summary.returned

\* C14 witness: only chunk_size is out of range, and the constructor raised.
C14_Witness ==
    /\ pc = "raised" /\ phases = <<>>
    /\ candidate.chunk_size = 1023
    /\ candidate.max_concurrent_transfers >= 1
    /\ candidate.retry_attempts >= 0
    /\ candidate.log_level = "INFO"

Range(q) == {q[i] : i \in 1..Len(q)}

\* The metadata of the entry can be read and every directory above it can
\* be listed.
Accessible(t, n) ==
    /\ t[n] \in {"ok", "nolist"}
    /\ t[RootNode] = "ok"
    /\ NodeParent[n] # RootNode => t[NodeParent[n]] = "ok"

\* The entry passes the filter of the call.
Passes(filter, n) == ~filter.given \/ ShouldInclude(filter.f, GetFileInfo(n))

\* The catalogue the call should return: the accessible entries that pass.
ExpectedCatalog(t, filter) ==
    {GetFileInfo(n) : n \in {m \in 1..5 : Accessible(t, m) /\ Passes(filter, m)}}

WalkEnded == walk.state \in {"returned", "raised"}

\* C15: with the root readable and the metadata of one file or one
\* sub-directory unreadable, discover_files does not raise and returns every
\* other accessible entry that passes the filter.
C15_UnreadableEntrySkipped ==
    (/\ WalkEnded
     /\ walk.tree[RootNode] = "ok"
     /\ Cardinality({n \in 1..5 : walk.tree[n] = "nostat"}) = 1) =>
        /\ walk.state = "returned"
        /\ Range(walk.files) = ExpectedCatalog(walk.tree, walk.filter)

\* C16: over a root that cannot be read, discover_files raises
\* FileAccessError and returns nothing.
C16_UnreadableRootFails ==
    (WalkEnded /\ walk.tree[RootNode] = "nolist") =>
        walk.state = "raised" /\ walk.error = "FileAccessError"

\* C17: discover_files returns the accessible entries of the subtree that
\* pass the filter (all of them without a filter), each exactly once.
C17_ExactCatalog ==
    WalkEnded =>
        /\ walk.state = "returned"
        /\ Range(walk.files) = ExpectedCatalog(walk.tree, walk.filter)
        /\ \A i, j \in 1..Len(walk.files) : walk.files[i] = walk.files[j] => i = j

\* C17, restricted to trees on which every os.stat succeeds; and its
\* example: two .txt files and one .zip file, extensions = ["zip"].
C17_ExactCatalog_AllStatOk ==
    (\A n \in 1..5 : walk.tree[n] # "nostat") =>
        /\ C17_ExactCatalog
        /\ (/\ WalkEnded
            /\ walk.tree = [n \in Nodes |-> IF n \in 0..3 THEN "ok" ELSE "absent"]
            /\ walk.filter.given
            /\ walk.filter.f = FileFilter(<< <<"z", "i", "p">> >>, NoneValue, <<>>,
                                          TRUE, <<>>, <<>>))
              => Len(walk.files) = 1

\* C18: a file that passes the filter is in the catalogue also when the
\* directory it lies in does not pass the filter.
C18_ExcludedDirectoryDescended ==
    walk.state = "returned" =>
        \A n \in 1..5 :
            LET d == NodeParent[n] IN
            (/\ d # RootNode
             /\ Accessible(walk.tree, d) /\ Accessible(walk.tree, n)
             /\ ~Passes(walk.filter, d)
             /\ Passes(walk.filter, n))
                => GetFileInfo(n) \in Range(walk.files)

\* C18 witness: the directory is left out (by include_directories or by an
\* exclude pattern of its name), the file in it is in the catalogue.
C18_Witness ==
    /\ walk.state = "returned"
    /\ walk.filter.given /\ walk.filter.f.exclude_patterns # <<>>
    /\ walk.filter.f.include_directories
    /\ Accessible(walk.tree, 4)
    /\ GetFileInfo(4) \notin Range(walk.files)
    /\ GetFileInfo(5) \in Range(walk.files)

\* The filter has no allow-list and no size limit.
EmptyCriteria(f) ==
    /\ f.extensions = <<>>
    /\ f.filename_prefixes = <<>>
    /\ f.filename_suffixes = <<>>
    /\ f.max_size.kind = "None"

\* C19 as stated: with the extension, prefix and suffix lists empty and no
\* max_size, should_include is true for every entry that matches no exclude
\* pattern.
C19_EmptyCriteriaIncludeAll ==
    (/\ flt.state = "returned"
     /\ EmptyCriteria(flt.filter)
     /\ ~MatchesExcludePatterns(flt.filter.exclude_patterns,
                                flt.file_info.name, flt.file_info.path))
        => flt.result

\* C19 amended: ... is true for every file that matches no exclude pattern,
\* and for every such directory exactly when include_directories is set.
C19_EmptyCriteriaIncludeAllowed ==
    (/\ flt.state = "returned"
     /\ EmptyCriteria(flt.filter)
     /\ ~MatchesExcludePatterns(flt.filter.exclude_patterns,
                                flt.file_info.name, flt.file_info.path))
        => (flt.result <=>
              (flt.file_info.is_directory => flt.filter.include_directories))

\* C19 witness: no allow-list, include_directories set, an exclude pattern
\* that does not match the directory, and the directory is included.
C19_Witness ==
    /\ flt.state = "returned"
    /\ EmptyCriteria(flt.filter)
    /\ flt.filter.exclude_patterns # <<>>
    /\ flt.file_info.is_directory /\ flt.filter.include_directories
    /\ ~MatchesExcludePatterns(flt.filter.exclude_patterns,
                               flt.file_info.name, flt.file_info.path)
    /\ flt.result

\* C20: for a file and a filter whose only criterion is max_size = N,
\* should_include is true for a size up to N and false above it, for a size
\* given as int or as numeric text alike, and true for a size that cannot
\* be compared.
C20_MaxSizeBoundary ==
    LET f == flt.filter
        z == flt.file_info.size
    IN  (/\ flt.state = "returned"
         /\ ~flt.file_info.is_directory
         /\ f.max_size = IntValue(SizeLimit)
         /\ f.extensions = <<>> /\ f.filename_prefixes = <<>>
         /\ f.filename_suffixes = <<>> /\ f.exclude_patterns = <<>>) =>
            /\ z.kind = "int" => (flt.result <=> z.n <= SizeLimit)
            /\ \A n \in {SizeLimit - 1, SizeLimit, SizeLimit + 1} :
                  z \in {StrValue(FormatInt(n)), StrValue(<<" ">> \o FormatInt(n))}
                      => (flt.result <=> n <= SizeLimit)
            /\ z \in {NoneValue, StrValue(<<>>), StrValue(<<"a", "b", "c">>)}
                  => flt.result

\* C20 witness: the size arrives as the text of N + 1 and the file is left out.
C20_Witness ==
    /\ flt.state = "returned"
    /\ ~flt.file_info.is_directory
    /\ flt.filter.max_size = IntValue(SizeLimit)
    /\ flt.filter.extensions = <<>> /\ flt.filter.exclude_patterns = <<>>
    /\ flt.filter.filename_prefixes = <<>> /\ flt.filter.filename_suffixes = <<>>
    /\ flt.file_info.size = StrValue(FormatInt(SizeLimit + 1))
    /\ ~flt.result

\* The size is within max_size; a size that cannot be compared is not held
\* against the file.
SizeRespected(f, size) ==
    \/ f.max_size.kind # "int"
    \/ size.kind = "int" /\ size.n <= f.max_size.n
    \/ size.kind = "str" /\ (ParseInt(size.text).ok => ParseInt(size.text).n <= f.max_size.n)
    \/ size.kind = "None"

\* One exclude pattern matches: as a glob on the name, as a glob on the full
\* path, or, tagged regex:, as a pattern found in the name.
ExcludePatternMatches(pattern, i) ==
    \/ FnMatch(LowerSeq(i.name), LowerSeq(pattern))
    \/ FnMatch(LowerSeq(i.path), LowerSeq(pattern))
    \/ /\ StartsWith(pattern, RegexPrefix)
       /\ ReSearch(SubSeq(pattern, Len(RegexPrefix) + 1, Len(pattern)), i.name)

\* The text after the last '.' of a name, as written.
WrittenExtension(name) ==
    IF LastIndexOf(name, ".") = 0 THEN <<>>
    ELSE SubSeq(name, LastIndexOf(name, ".") + 1, Len(name))

\* The name up to its last '.', as written.
WrittenStem(name) ==
    IF LastIndexOf(name, ".") = 0 THEN name
    ELSE SubSeq(name, 1, LastIndexOf(name, ".") - 1)

\* C21: for a file, should_include is true exactly when each non-empty
\* allow-list (extensions, name prefixes, suffixes of the name without its
\* extension) has an entry that holds, the size is within max_size, and no
\* exclude pattern matches; an empty allow-list constrains nothing.
C21_AllowListsAndExcludes ==
    LET f == flt.filter
        i == flt.file_info
        extension == \/ Len(f.extensions) = 0
                     \/ \E k \in 1..Len(f.extensions) :
                           f.extensions[k] = LowerSeq(WrittenExtension(i.name))
        prefix == \/ Len(f.filename_prefixes) = 0
                  \/ \E k \in 1..Len(f.filename_prefixes) :
                        StartsWith(LowerSeq(i.name), f.filename_prefixes[k])
        suffix == \/ Len(f.filename_suffixes) = 0
                  \/ \E k \in 1..Len(f.filename_suffixes) :
                        EndsWith(LowerSeq(WrittenStem(i.name)), f.filename_suffixes[k])
        excluded == \E k \in 1..Len(f.exclude_patterns) :
                        ExcludePatternMatches(f.exclude_patterns[k], i)
    IN  (flt.state = "returned" /\ ~i.is_directory) =>
            (flt.result <=>
                (extension /\ prefix /\ suffix /\ SizeRespected(f, i.size) /\ ~excluded))

\* C21 witness: a file that passes a two-entry extension list by its second
\* alternative, a prefix list and a suffix list, under a size limit and an
\* exclude pattern that does not match.
C21_Witness ==
    /\ flt.state = "returned"
    /\ ~flt.file_info.is_directory
    /\ Len(flt.filter.extensions) = 2
    /\ flt.filter.extensions[1] = GetFileExtension(flt.file_info.name)
    /\ flt.filter.filename_prefixes # <<>>
    /\ flt.filter.filename_suffixes # <<>>
    /\ flt.filter.max_size.kind = "int"
    /\ flt.filter.exclude_patterns # <<>>
    /\ flt.result

\* C21 witness: a file that passes every allow-list and the size limit is
\* left out because an exclude pattern matches its full path only.
C21_Witness_PathGlob ==
    /\ flt.state = "returned"
    /\ ~flt.file_info.is_directory
    /\ flt.filter.exclude_patterns = << <<"*", "/", "c", ".", "*">> >>
    /\ flt.file_info.name = NameZip
    /\ flt.filter.extensions # <<>>
    /\ ExtensionAllowed(flt.filter, flt.file_info.name)
    /\ flt.filter.filename_prefixes = <<>> /\ flt.filter.filename_suffixes = <<>>
    /\ SizeRespected(flt.filter, flt.file_info.size)
    /\ ~flt.result

\* C22: when an entry of the extensions argument and the extension of a
\* file's name differ only in letter case, the entry with or without a
\* leading dot, the extension criterion holds: with no other criterion the
\* file is included.
C22_ExtensionIgnoresCase ==
    LET f == flt.filter
        i == flt.file_info
        sameButCase(entry) ==
            \/ LowerSeq(entry) = LowerSeq(WrittenExtension(i.name))
            \/ /\ entry # <<>> /\ Head(entry) = "."
               /\ LowerSeq(Tail(entry)) = LowerSeq(WrittenExtension(i.name))
    IN  (/\ flt.state = "returned"
         /\ ~i.is_directory
         /\ \E k \in 1..Len(flt.extensions) : sameButCase(flt.extensions[k])) =>
            /\ ExtensionAllowed(f, i.name)
            /\ (/\ f.max_size.kind = "None"
                /\ f.filename_prefixes = <<>> /\ f.filename_suffixes = <<>>
                /\ f.exclude_patterns = <<>>) => flt.result

\* C22 witness: c.ZIP passes a filter built with extensions ["zip"] alone.
C22_Witness ==
    /\ flt.state = "returned"
    /\ flt.file_info.name = NameZip /\ ~flt.file_info.is_directory
    /\ flt.extensions = << <<"z", "i", "p">> >>
    /\ flt.filter.max_size.kind = "None"
    /\ flt.filter.filename_prefixes = <<>> /\ flt.filter.filename_suffixes = <<>>
    /\ flt.filter.exclude_patterns = <<>>
    /\ flt.result

\* The archives under base_path when the run began, and those among them
\* that are not zip files.
SourceArchives == {i \in ArchiveIds : zips.kind[i] # "absent"}
CorruptArchives == {i \in ArchiveIds : zips.kind[i] = "corrupt"}

\* The archives the run has extracted.
ExtractedArchives == DOMAIN zips.extracted_to

\* How often e occurs in the list.
CountOf(list, e) == Cardinality({k \in 1..Len(list) : list[k] = e})

\* The counters of the summary agree with the archives of the run.
CorruptArchivesCounted ==
    /\ zips.total_zip_files = Cardinality(SourceArchives)
    /\ zips.failed_zip_files = Cardinality(CorruptArchives)
    /\ CountOf(zips.errors, "zip_failed") = Cardinality(CorruptArchives)
    /\ zips.processed_zip_files = Cardinality(SourceArchives \ CorruptArchives)
    /\ zips.total_zip_files = zips.processed_zip_files + zips.failed_zip_files

\* C23: process_mcu_soc_structure and extract_all_zips return a summary in
\* which every corrupt archive adds one to failed_zip_files and one entry to
\* errors, every other archive is processed, and
\* total_zip_files = processed_zip_files + failed_zip_files.
C23_CorruptArchiveCounted == zips.pc = "returned" => CorruptArchivesCounted

\* C23 where no unlink of an extracted archive raised: the counters agree.
C23_CorruptArchiveCounted_Unlinked ==
    (zips.pc = "returned" /\ zips.unlink_failed = {}) => CorruptArchivesCounted

\* C23 witness of the spec's example: 3 archives, 1 of them corrupt, give
\* total 3, processed 2, failed 1 and one error.
C23_Example ==
    /\ zips.pc = "returned"
    /\ Cardinality(SourceArchives) = 3 /\ Cardinality(CorruptArchives) = 1
    /\ zips.total_zip_files = 3 /\ zips.processed_zip_files = 2
    /\ zips.failed_zip_files = 1 /\ Len(zips.errors) = 1

\* The derived directory name of archive i in the two-category run.
DerivedName(i) == ExtractVehicleModel(ArchiveFiles[i].name, ArchiveFiles[i].category)

\* The step extracts the archive at the head of zip_files.
ExtractsHead ==
    /\ zips.op = "process_mcu_soc_structure"
    /\ zips.pc = "zips" /\ zips.zip_files # <<>>
    /\ zips'.processed_zip_files = zips.processed_zip_files + 1

\* No archive is extracted into a directory that was non-empty before.
IntoEmptyDirectory ==
    ExtractsHead => ~NonEmpty(zips.output, zips'.extracted_to[Head(zips.zip_files)])

ExtractedOf(category) == {i \in ExtractedArchives : ArchiveFiles[i].category = category}

\* The files archive i wrote into its output directory.
MembersOf(i) == IF zips.kind[i] = "full" THEN {ArchiveFiles[i].member} ELSE {}

\* After _copy_soc_to_mcu_directories: one output directory per processed
\* archive, every MCU output directory holds a category-B file at each path
\* of each SOC output directory, and no SOC output directory holds a file of
\* an MCU archive.
CrossMerged ==
    /\ Cardinality({zips.extracted_to[i] : i \in ExtractedArchives}) = zips.processed_zip_files
    /\ \A a \in ExtractedOf("MCU"), b \in ExtractedOf("SOC") :
          \A p \in MembersOf(b) :
              zips.output[zips.extracted_to[a]][p] \in ExtractedOf("SOC")
    /\ \A b \in ExtractedOf("SOC"), p \in Paths :
          zips.output[zips.extracted_to[b]][p] \notin ExtractedOf("MCU")

\* The merge was asked for, both category folders exist and the merge is over.
MergeDone ==
    /\ zips.op = "process_mcu_soc_structure"
    /\ zips.pc = "cleanup"
    /\ zips.copy_soc_to_mcu /\ zips.folders["MCU"] /\ zips.folders["SOC"]

\* C25: with copy_soc_to_mcu and both category folders present, the run
\* produces one output directory per processed archive, every output
\* directory of an MCU archive holds a copy of every file of every output
\* directory of a SOC archive, and no SOC output directory receives files of
\* an MCU archive.
C25_CrossMerge == MergeDone => CrossMerged

\* C25 where every MCU archive's derived name does not begin with SOC_, no
\* archive is without members and no copy raised: the merge is as stated.
C25_CrossMerge_NamedApart ==
    (/\ MergeDone
     /\ \A a \in ExtractedOf("MCU") : ~IsSocDirectory(zips.extracted_to[a])
     /\ \A i \in ExtractedArchives : zips.kind[i] = "full"
     /\ CountOf(zips.errors, "copy_failed") = 0) => CrossMerged

\* C25 example: one MCU archive of the primary naming and one SOC archive
\* are merged: the MCU directory holds both files.
C25_Example ==
    /\ MergeDone
    /\ ExtractedArchives = {1, 4}
    /\ zips.output[zips.extracted_to[1]] = [p \in Paths |-> IF p = "f" THEN 1 ELSE 4]
    /\ zips.output[zips.extracted_to[4]] = [p \in Paths |-> IF p = "g" THEN 4 ELSE 0]

DeleteError(category) == IF category = "MCU" THEN "mcu_delete_failed" ELSE "soc_delete_failed"

\* C26: when process_mcu_soc_structure returns its summary, each of the
\* folders MCU and SOC is gone or has its deletion error in the summary's
\* errors; the run ends returned whether or not a deletion failed.
C26_FoldersDeletedOrReported ==
    (zips.op = "process_mcu_soc_structure" /\ zips.pc = "returned") =>
        \A c \in Categories :
            \/ ~zips.folders[c]
            \/ CountOf(zips.errors, DeleteError(c)) = 1

\* C26 witness: the summary is returned with MCU deleted and SOC, whose
\* rmtree failed, still there and reported.
C26_Witness ==
    /\ zips.op = "process_mcu_soc_structure" /\ zips.pc = "returned"
    /\ ~zips.folders["MCU"] /\ zips.kind[1] # "absent"
    /\ zips.folders["SOC"]
    /\ CountOf(zips.errors, "soc_delete_failed") = 1
    /\ CountOf(zips.errors, "mcu_delete_failed") = 0

\* C27: process_mcu_soc_structure with keep_original = true returns with
\* every source archive still in place.
C27_KeptArchivesRemain ==
    (/\ zips.op = "process_mcu_soc_structure" /\ zips.pc = "returned"
     /\ zips.keep_original) =>
        \A i \in SourceArchives : zips.present[i]

\* C27 before cleanup_original_folders: with keep_original = true the
\* archive loops leave every source archive in place.
C27_KeptArchivesRemain_BeforeCleanup ==
    (/\ zips.op = "process_mcu_soc_structure" /\ zips.pc = "cleanup"
     /\ zips.keep_original) =>
        \A i \in SourceArchives : zips.present[i]

CallbackPerOutcome ==
    /\ monitor.completed_files + monitor.failed_files = Cardinality(FileEntries(files))
    /\ monitor.completed_files = CountSuccess(results, TRUE)
    /\ monitor.failed_files = CountSuccess(results, FALSE)

\* C29: when the batch has ended, the callback has been delivered once for
\* the outcome of every non-directory entry, success or failure, a failure
\* after the last retry included: completed_files + failed_files of the
\* ProgressMonitor is the number of non-directory entries, and the
\* callbacks match the outcomes recorded.
C29_CallbackPerOutcome ==
    (pc = "done" /\ InPhases("transfer")) => CallbackPerOutcome

\* C29 where the retry loop runs and no file ran out of retries: the
\* callback was delivered once per entry.
C29_CallbackPerOutcome_NoRetryFailed ==
    (/\ pc = "done" /\ InPhases("transfer")
     /\ config.retry_attempts >= 1
     /\ \A r \in BagToSet(results) : r.error_message # "retry_failed")
        => CallbackPerOutcome

\* C30: when sync_files has finished a batch, get_summary of the
\* ProgressMonitor and the TransferSummary returned agree on total,
\* successful, failed and skipped files and on total and transferred bytes.
C30_MonitorSummaryAgrees ==
    (pc = "done" /\ InPhases("transfer")) =>
        /\ GetSummary(monitor).total_files = summary.total_files
        /\ GetSummary(monitor).successful_files = summary.successful_files
        /\ GetSummary(monitor).failed_files = summary.failed_files
        /\ GetSummary(monitor).skipped_files = summary.skipped_files
        /\ GetSummary(monitor).total_bytes = summary.total_bytes
        /\ GetSummary(monitor).transferred_bytes = summary.transferred_bytes

\* C30 for the two fields that always agree: skipped files and total bytes.
C30_MonitorSummaryAgrees_TotalBytes ==
    (pc = "done" /\ InPhases("transfer")) =>
        /\ GetSummary(monitor).skipped_files = summary.skipped_files
        /\ GetSummary(monitor).total_bytes = summary.total_bytes

\* Every file an MCU archive wrote is in its output directory with that
\* archive's content.
McuFilesKept ==
    \A a \in ExtractedOf("MCU") :
        \A p \in MembersOf(a) : zips.output[zips.extracted_to[a]][p] = a

\* C38: after the merge every file extracted from an MCU archive is still in
\* its output directory with its own content, also when a SOC output
\* directory holds a file at the same relative path.
C38_MergeOnlyAdds == MergeDone => McuFilesKept

\* C38 where no directory the merge copies from holds a path that an MCU
\* archive wrote: the MCU files are kept.
C38_MergeOnlyAdds_OtherPaths ==
    (/\ MergeDone
     /\ \A a \in ExtractedOf("MCU") : \A p \in MembersOf(a) :
           \A k \in 1..Len(zips.merged_directories) :
               IsSocDirectory(zips.merged_directories[k])
                   => zips.output[zips.merged_directories[k]][p] = 0) => McuFilesKept

\* C38 before the merge: every MCU archive's files are in its directory.
C38_MergeOnlyAdds_BeforeMerge ==
    (zips.op = "process_mcu_soc_structure" /\ zips.pc = "copy_soc_to_mcu") => McuFilesKept

\* C37: a file whose recorded outcome is a failure has, at its local
\* target, nothing or the content that was there before: never a partial
\* or truncated file.
C37_NoPartialAfterFailure ==
    \A r \in BagToSet(results) :
        (~r.success /\ task[r.file].pc = "done") => local[r.file] \in {Absent, "old"}

Normalized == manager.state = "initialized"

\* The share_path has a character that is not a separator.
NamesSomething == \E i \in 1..Len(manager.share_path) : manager.share_path[i] \notin {Slash, Backslash}

NoForwardSlash == \A i \in 1..Len(manager.normalized_path) : manager.normalized_path[i] # Slash

NetworkPrefix == StartsWith(manager.normalized_path, <<Backslash, Backslash>>)

NoTrailingSeparator == manager.normalized_path = <<>> \/ manager.normalized_path[Len(manager.normalized_path)] # Backslash

Idempotent == NormalizePath(manager.normalized_path) = manager.normalized_path

\* C36: for every share_path the normalised path has no forward slash,
\* starts with the double-separator network prefix, has no trailing
\* separator, and normalising it again returns it unchanged.
C36_Canonical == Normalized => (NoForwardSlash /\ NetworkPrefix /\ NoTrailingSeparator /\ Idempotent)

\* The three other properties hold for every share_path.
C36_Canonical_ButPrefix == Normalized => (NoForwardSlash /\ NoTrailingSeparator /\ Idempotent)

\* The prefix is there whenever the share_path names something.
C36_Canonical_Named == (Normalized /\ NamesSomething) => NetworkPrefix

\* A share_path made of separators only, or of nothing, normalises to the empty path.
C36_Canonical_SeparatorsOnly == (Normalized /\ ~NamesSomething) => manager.normalized_path = <<>>

\* The classes derived from WindowsFileSyncError, and the class itself.
RootErrorTypes ==
    {"WindowsFileSyncError", "ShareAccessError", "AuthenticationError", "FileAccessError",
     "TransferError", "ZipProcessingError"}

\* The step of sync_files the call was in when it raised.
RaisedIn == phases[Len(phases)]

\* What each step raises into handle_sync_errors: the engine errors of the
\* steps before the transfer, and from copy_files a TransferError or the
\* OSError of a mkdir.
EscapesOf(step) ==
    CASE step = "validate_local" -> {"TransferError"}
      [] step = "validate_remote" -> {"ShareAccessError"}
      [] step = "probe" -> {"ShareAccessError", "AuthenticationError"}
      [] step = "discover" -> {"FileAccessError"}
      [] step = "space" -> {"TransferError"}
      [] step = "transfer" -> {"TransferError", "WindowsFileSyncError"}
      [] OTHER -> {}

C33_Witness_Unchanged == pc = "raised" /\ RaisedIn = "probe" /\ error = "AuthenticationError"

\* A file task sleeps between two attempts while another one waits to be admitted.
SiblingWaits == pc = "gather" /\ \E f, g \in Files : task[f].pc = "sleeping" /\ task[g].pc = "created"

\* C31: while a file task sleeps between attempts, a sibling that is not yet
\* admitted can be admitted: the limiter has a free slot for it.
C31_SleepNeverBlocks == SiblingWaits => SemaphoreFree

\* It holds where the cap leaves a slot for every file task of the batch.
C31_SleepNeverBlocks_WideCap == (SiblingWaits /\ config.max_concurrent_transfers >= Cardinality(FileEntries(files))) => SemaphoreFree

\* The batch of copy_files has run to its end and sync_files has returned.
BatchDone == pc = "done" /\ InPhases("transfer")

\* The file tasks that have built a TransferResult, by what it says.
TasksWith(rets) == {f \in FileIds(files) : task[f].result \in rets}

Failures == {"already_exists", "copy_failed", "retry_failed"}

\* The counts and byte totals that follow from the input list and the
\* per-file results alone.
SummaryOfTasks ==
    [total_files |-> Cardinality(files),
     successful_files |-> Cardinality(TasksWith({"success"})),
     failed_files |-> Cardinality(TasksWith(Failures)),
     skipped_files |-> 0,
     total_bytes |-> TotalSize(files),
     transferred_bytes |-> SumSize({FileEntry(f) : f \in TasksWith({"success"})})]

\* C32: the counts and byte totals of the TransferSummary are a function of
\* the input list and the per-file results: whatever the order in which the
\* file tasks were admitted and finished, the summary is the same.
C32_SummaryOrderIndependent ==
    BatchDone =>
        /\ summary.total_files = SummaryOfTasks.total_files
        /\ summary.successful_files = SummaryOfTasks.successful_files
        /\ summary.failed_files = SummaryOfTasks.failed_files
        /\ summary.skipped_files = SummaryOfTasks.skipped_files
        /\ summary.total_bytes = SummaryOfTasks.total_bytes
        /\ summary.transferred_bytes = SummaryOfTasks.transferred_bytes

\* C32 witness: two tasks ran side by side, the second admitted finished
\* first, with different results.
C32_Witness ==
    /\ BatchDone
    /\ config.max_concurrent_transfers >= 2
    /\ \E f, g \in FileIds(files) :
          /\ task[f].attempt >= 2 /\ task[g].attempt = 1
          /\ task[f].result = "success" /\ task[g].result = "copy_failed"

\* The outcome list as the tasks' appends give it.
AppendedOutcomes == {TransferResult(f, task[f].result) : f \in TasksWith({"success"} \cup Failures)}

\* C34: under every interleaving of the file tasks no update of the shared
\* state is lost: the outcome list holds every outcome a task has appended,
\* once, and the counters of the ProgressMonitor are the numbers of callbacks
\* delivered.
C34_NoLostUpdate ==
    (pc \in {"gather", "done"} /\ InPhases("transfer")) =>
        /\ results = SetToBag(AppendedOutcomes)
        /\ monitor.completed_files = Cardinality(TasksWith({"success"}))
        /\ monitor.failed_files = Cardinality(TasksWith({"already_exists", "copy_failed"}))

\* C34 witness: two tasks were in flight together, one of them slept between
\* attempts, and both delivered a callback.
C34_Witness ==
    /\ BatchDone
    /\ config.max_concurrent_transfers >= 2
    /\ \E f, g \in FileIds(files) :
          /\ f # g
          /\ task[f].attempt >= 2 /\ task[f].result = "success"
          /\ task[g].result = "success"
    /\ monitor.completed_files = 2

\* C35: copy_files terminates: with no file task between two attempts every
\* limiter slot is free again (each exit path of a task released its slot),
\* every task that gather has scheduled and that waits at the limiter is
\* admitted in the end, once copy_files is entered it returns or raises, and
\* once the tasks run the summary is returned.
C35_CopyFilesTerminates ==
    /\ []((pc = "gather" /\ \A f \in Files : task[f].pc # "sleeping") => SemaphoreFree)
    /\ \A f \in Files : (pc = "gather" /\ task[f].pc = "created") ~> Started(f)
    /\ InPhases("transfer") ~> (pc \in {"done", "raised"})
    /\ (pc = "gather") ~> (pc = "done" /\ summary.returned)

\* C35 witness: at cap 1 a task slept between attempts while the other
\* waited; both have finished and the summary is returned.
C35_Witness ==
    /\ BatchDone /\ summary.returned
    /\ config.max_concurrent_transfers = 1
    /\ Cardinality(FileIds(files)) >= 2
    /\ \A f \in FileIds(files) : task[f].pc = "done"
    /\ \E f \in FileIds(files) : task[f].attempt >= 2

\* ---------------------------------------------------------- specifications
\* sync_files is called on a WindowsFileSync; nothing else is looked at.
Init ==
    /\ SyncInit
    /\ zipCall = NoZipCall
    /\ op = NoOperation
    /\ candidate = AsSyncConfig(config)
    /\ flt = NoFilterCall
    /\ walk = NoWalk
    /\ manager = NoManager
    /\ zips = NoArchiveRun

\* One sync_files call.
Next ==
    \/ ValidateLocalPath
    \/ ValidatePath
    \/ TestAccess
    \/ DiscoverFiles
    \/ CheckDiskSpace
    \/ StartTransfer
    \/ ClearDestination
    \/ MakeBaseDir
    \/ CreateDirectory
    \/ Gather
    \/ \E f \in Files : StartTask(f)
    \/ \E f \in Files : WakeUp(f)
    \/ Summarize

Spec == Init /\ [][Next]_vars

\* Two sync_files calls in succession into a local root that is new.
InitRepeat == Init /\ ~rootExists

NextRepeat == Next \/ NextCall

SpecRepeat == InitRepeat /\ [][NextRepeat]_vars

\* One sync_and_process_zips call: sync_files, then the post-processing;
\* the copy tasks run one at a time.
InitZips ==
    /\ SyncInit
    /\ config.max_concurrent_transfers = 1
    /\ \E b \in BOOLEAN : zipCall = [NoZipCall EXCEPT !.state = "syncing", !.process_zips = b]
    /\ op = NoOperation
    /\ candidate = AsSyncConfig(config)
    /\ flt = NoFilterCall
    /\ walk = NoWalk
    /\ manager = NoManager
    /\ zips = NoArchiveRun

NextZips == Next \/ ProcessZips \/ SyncFilesRaised

SpecZips == InitZips /\ [][NextZips]_vars

\* One _retry_operation call for each operation, outcome sequence and
\* retry count.
InitRetry ==
    /\ SyncNotRun
    /\ zipCall = NoZipCall
    /\ \E o \in DOMAIN RetriedOperations :
          \E outs \in OperationOutcomes(o) :
              op = [NoOperation EXCEPT !.state = "running", !.operation = o,
                                       !.outcomes = outs]
    /\ candidate = AsSyncConfig(config)
    /\ flt = NoFilterCall
    /\ walk = NoWalk
    /\ manager = NoManager
    /\ zips = NoArchiveRun

NextRetry == CallOperation \/ SleepReturns

SpecRetry == InitRetry /\ [][NextRetry]_vars

\* The constructor with any configuration, then sync_files on the object.
InitConstruct ==
    /\ candidate \in Candidates
    /\ config = [retry_attempts |-> DefaultRetryAttempts,
                 max_concurrent_transfers |-> DefaultMaxConcurrentTransfers]
    /\ pc = "init"
    /\ phases = <<>>
    /\ SyncWorld
    /\ zipCall = NoZipCall
    /\ op = NoOperation
    /\ flt = NoFilterCall
    /\ walk = NoWalk
    /\ manager = NoManager
    /\ zips = NoArchiveRun

NextConstruct == Construct \/ Next

SpecConstruct == InitConstruct /\ [][NextConstruct]_vars

\* One should_include call for each filter and entry.
InitFilter ==
    /\ SyncNotRun
    /\ config.retry_attempts = DefaultRetryAttempts
    /\ zipCall = NoZipCall
    /\ op = NoOperation
    /\ candidate = AsSyncConfig(config)
    /\ walk = NoWalk
    /\ manager = NoManager
    /\ zips = NoArchiveRun
    /\ \E e \in ExtensionArguments, f \in FilterArguments, i \in FileInfos :
          /\ f.extensions = FileFilter(e, NoneValue, <<>>, TRUE, <<>>, <<>>).extensions
          /\ flt = [NoFilterCall EXCEPT !.state = "called", !.extensions = e,
                                        !.filter = f, !.file_info = i]

NextFilter == ShouldIncludeCall

SpecFilter == InitFilter /\ [][NextFilter]_vars

\* One discover_files call for each tree and filter.
InitDiscover ==
    /\ SyncNotRun
    /\ config.retry_attempts = DefaultRetryAttempts
    /\ zipCall = NoZipCall
    /\ op = NoOperation
    /\ candidate = AsSyncConfig(config)
    /\ flt = NoFilterCall
    /\ zips = NoArchiveRun
    /\ manager = NoManager
    /\ \E t \in Trees, f \in DiscoveryFilters :
          walk = [NoWalk EXCEPT !.state = "called", !.tree = t, !.filter = f]

NextDiscover == DiscoverFilesCall

SpecDiscover == InitDiscover /\ [][NextDiscover]_vars

\* One ZipProcessingService run, process_mcu_soc_structure or
\* extract_all_zips, over each tree of archives and each choice of options.
InitArchives ==
    /\ SyncNotRun
    /\ config.retry_attempts = DefaultRetryAttempts
    /\ zipCall = NoZipCall
    /\ op = NoOperation
    /\ candidate = AsSyncConfig(config)
    /\ flt = NoFilterCall
    /\ walk = NoWalk
    /\ manager = NoManager
    /\ \E k \in Sources, folders \in [Categories -> BOOLEAN], keep, option \in BOOLEAN :
          /\ \A i \in ArchiveIds : k[i] # "absent" => folders[ArchiveFiles[i].category]
          /\ \/ zips = [NoArchiveRun EXCEPT !.op = "process_mcu_soc_structure", !.pc = "exists",
                                             !.kind = k, !.present = [i \in ArchiveIds |-> k[i] # "absent"],
                                             !.folders = folders, !.keep_original = keep,
                                             !.copy_soc_to_mcu = option]
             \/ zips = [NoArchiveRun EXCEPT !.op = "extract_all_zips", !.pc = "rglob",
                                             !.kind = k, !.present = [i \in ArchiveIds |-> k[i] # "absent"],
                                             !.folders = folders, !.keep_original = keep,
                                             !.create_subdirs = option]

NextArchives ==
    \/ ProcessDirectoryZips
    \/ ProcessZipFile
    \/ DirectoryZipsProcessed
    \/ CopySocToMcuDirectories
    \/ CleanupOriginalFolders
    \/ ExtractAllZips
    \/ ExtractZipFile
    \/ AllZipsExtracted

SpecArchives == InitArchives /\ [][NextArchives]_vars


\* A WindowsShareManager is constructed for a share_path.
InitManager ==
    /\ SyncNotRun
    /\ config.retry_attempts = DefaultRetryAttempts
    /\ zipCall = NoZipCall
    /\ op = NoOperation
    /\ candidate = AsSyncConfig(config)
    /\ flt = NoFilterCall
    /\ walk = NoWalk
    /\ zips = NoArchiveRun
    /\ \E t \in SharePaths : manager = [NoManager EXCEPT !.state = "called", !.share_path = t]

NextManager == ManagerInit

SpecManager == InitManager /\ [][NextManager]_vars


\* One sync_files call that the user may interrupt.
NextInterrupt == Next \/ Interrupt

SpecInterrupt == Init /\ [][NextInterrupt]_vars


\* One sync_files call under the event loop: a step that can be taken is
\* taken in the end (every awaited call returns, every ready task is run).
SpecLive == Init /\ [][Next]_vars /\ WF_vars(Next)

====
